---- MODULE Spec2Model ----
(***************************************************************************)
(* Urban Maintenance Scout: the scan orchestrator (utils/scan_location.py) *)
(* with the collaborators it sequences: coordinate validation and the      *)
(* imagery fetcher (utils/fetcher.py), the storage upload                  *)
(* (utils/storage.py), detection and annotation (utils/cv_analysis.py),    *)
(* the report generator (chains/analyst_chain.py) and the insert           *)
(* (utils/database.py).                                                    *)
(*                                                                         *)
(* Coordinates are fixed-point numbers: Scale units per degree.            *)
(***************************************************************************)
EXTENDS Integers, Sequences, FiniteSets, TLC

\* ------------------------------------------------------------------ bounds

\* Units per degree of the fixed-point coordinates (40.7128 is 407128).
Scale == 10000

\* The largest max_retries argument tried (the default, 2, is within it).
MaxRetriesArg == 2

\* The longest location list given to scan_multiple_locations.
MaxLocations == 2

\* The most detections the fusion engine returns for one image.
MaxDetections == 1

\* The most results one detector hands back for one image.
MaxPerDetector == 2

\* The most angles given to fetch_multiple_angles.
MaxAngles == 2

\* The longest pool of candidates handed to the duplicate scan.
MaxPool == 3

\* The largest pixel coordinate of the boxes given to iou.
MaxCoordinate == 2

\* The most detections given to draw_bounding_boxes.
MaxAnnotated == 2

\* The size of the image it draws on, in pixels.
ImageWidth == 3
ImageHeight == 2

\* ------------------------------------------------------- program constants

\* scan_with_retry(lat, lon, max_retries=2)
DefaultMaxRetries == 2

\* time.sleep(2)
RetryPauseSeconds == 2

\* validate_coordinates: -90 <= lat <= 90, -180 <= lon <= 180 (degrees)
LatLimit == 90
LonLimit == 180

\* ------------------------------------------------------------- coordinates

\* A coordinate argument as Python sees it: a number, a text that float()
\* cannot parse (ValueError), None (TypeError) or the float nan.
Num(v) == [kind |-> "num", val |-> v]
Text == [kind |-> "text", val |-> 0]
NoneArg == [kind |-> "none", val |-> 0]
NaN == [kind |-> "nan", val |-> 0]

\* float(x) succeeds: no ValueError and no TypeError.
FloatParses(x) == x.kind \in {"num", "nan"}

\* -limit <= float(x) <= limit; every comparison with nan is false.
InRange(x, limit) ==
    /\ x.kind = "num"
    /\ -(limit * Scale) <= x.val
    /\ x.val <= limit * Scale

\* validate_coordinates with the limits themselves rejected (< for <=).
validate_coordinates_exclusive(latitude, longitude) ==
    /\ FloatParses(latitude) /\ FloatParses(longitude)
    /\ latitude.kind = "num" /\ longitude.kind = "num"
    /\ -(LatLimit * Scale) < latitude.val /\ latitude.val < LatLimit * Scale
    /\ -(LonLimit * Scale) < longitude.val /\ longitude.val < LonLimit * Scale

\* fetcher.validate_coordinates
validate_coordinates(latitude, longitude) ==
    IF ~(FloatParses(latitude) /\ FloatParses(longitude)) THEN FALSE
    ELSE IF ~InRange(latitude, LatLimit) THEN FALSE
    ELSE IF ~InRange(longitude, LonLimit) THEN FALSE
    ELSE TRUE

\* The (lat, lon) pairs the runs are given: the examples of the fetcher's
\* self-test and of the documentation, the inclusive limits, the first
\* values outside them, and arguments that are not numbers.
ValidCoordinates ==
    { <<Num(407128), Num(-740060)>>,
      <<Num(LatLimit * Scale), Num(LonLimit * Scale)>>,
      <<Num(-(LatLimit * Scale)), Num(-(LonLimit * Scale))>> }

InvalidCoordinates ==
    { <<Num(91 * Scale), Num(0)>>,
      <<Num(0), Num(181 * Scale)>>,
      <<Num(LatLimit * Scale + 1), Num(0)>>,
      <<Num(-(LatLimit * Scale) - 1), Num(0)>>,
      <<Num(0), Num(LonLimit * Scale + 1)>>,
      <<Num(0), Num(-(LonLimit * Scale) - 1)>>,
      <<Text, Num(0)>>,
      <<Num(0), NoneArg>>,
      <<NaN, Num(0)>> }

TestCoordinates == ValidCoordinates \cup InvalidCoordinates

\* ------------------------------------------------------- local scratch files

\* main's fixed scratch file names.
ScanPath == "latest_scan.jpg"
AnnotatedPath == "latest_scan_annotated.jpg"
Paths == {ScanPath, AnnotatedPath}

\* A file: whether it exists, its size (0 or positive, as 1) and the run of
\* main whose image it holds.
Absent == [exists |-> FALSE, size |-> 0, run |-> 0]
FileOf(size, r) == [exists |-> TRUE, size |-> size, run |-> r]

\* ---------------------------------------------------------- imagery fetcher

\* What one call of the fetcher meets: whether STREET_VIEW_API_KEY is set, how
\* requests.get ends, the response's status, content type and body size, and
\* whether the scratch file can be opened for writing.
FetchEnvironments ==
    [ api_key : BOOLEAN,
      transport : {"ok", "timeout", "connection_error"},
      status : {200, 400, 403},
      image : BOOLEAN,
      size : {0, 1},
      writable : BOOLEAN ]

\* The fetcher returning the path of a file that is already there when the
\* request fails (a cached image).
fetch_reusing_stale_file(latitude, longitude, fs, save_path, env, r) ==
    IF env.api_key /\ env.transport = "ok" /\ env.status = 200 /\ env.image /\ env.writable
    THEN LET written == [fs EXCEPT ![save_path] = FileOf(env.size, r)]
         IN  IF written[save_path].size > 0
             THEN [path |-> save_path, files |-> written, gets |-> 1,
                   location |-> <<latitude, longitude>>]
             ELSE [path |-> "None", files |-> written, gets |-> 1,
                   location |-> <<latitude, longitude>>]
    ELSE IF fs[save_path].exists /\ fs[save_path].size > 0
         THEN [path |-> save_path, files |-> fs, gets |-> 1,
                   location |-> <<latitude, longitude>>]
         ELSE [path |-> "None", files |-> fs, gets |-> 1,
                   location |-> <<latitude, longitude>>]

\* The fetcher without the test of the size of the file it wrote.
fetch_ignoring_empty_file(latitude, longitude, fs, save_path, env, r) ==
    IF ~env.api_key THEN
        [path |-> "None", files |-> fs, gets |-> 0, location |-> << >>]
    ELSE IF env.transport # "ok" \/ env.status # 200 \/ ~env.image \/ ~env.writable THEN
        [path |-> "None", files |-> fs, gets |-> 1,
                   location |-> <<latitude, longitude>>]
    ELSE
        [path |-> save_path, files |-> [fs EXCEPT ![save_path] = FileOf(env.size, r)],
         gets |-> 1, location |-> <<latitude, longitude>>]

\* fetcher.fetch_street_view_image: the returned path ("None" for None), the
\* files after the call, the number of HTTP GETs issued and the "location"
\* parameter of the request. The coordinates only go into that parameter, as
\* f"{latitude},{longitude}".
fetch_street_view_image(latitude, longitude, fs, save_path, env, r) ==
    IF ~env.api_key THEN
        [path |-> "None", files |-> fs, gets |-> 0, location |-> << >>]
    ELSE IF env.transport # "ok" THEN
        [path |-> "None", files |-> fs, gets |-> 1,
                   location |-> <<latitude, longitude>>]
    ELSE IF env.status # 200 THEN
        [path |-> "None", files |-> fs, gets |-> 1,
                   location |-> <<latitude, longitude>>]
    ELSE IF ~env.image THEN
        [path |-> "None", files |-> fs, gets |-> 1,
                   location |-> <<latitude, longitude>>]
    ELSE IF ~env.writable THEN
        [path |-> "None", files |-> fs, gets |-> 1,
                   location |-> <<latitude, longitude>>]
    ELSE
        LET written == [fs EXCEPT ![save_path] = FileOf(env.size, r)]
        IN  IF written[save_path].exists /\ written[save_path].size > 0
            THEN [path |-> save_path, files |-> written, gets |-> 1,
                   location |-> <<latitude, longitude>>]
            ELSE [path |-> "None", files |-> written, gets |-> 1,
                   location |-> <<latitude, longitude>>]

\* ------------------------------------------------------------ object storage

\* An object of the bucket: the run whose image it holds, the local file it
\* was read from and the run that uploaded it. Its public URL is its position
\* in the bucket (names are unique by construction); 0 stands for None.
StoredObject(f, local_path, r) == [run |-> f.run, path |-> local_path, by |-> r]

\* storage.upload_image_to_supabase: the returned URL (0 for None) and the
\* bucket after the call; provider_ok is whether the provider accepts the
\* upload.
upload_image_to_supabase(fs, local_path, bucket, provider_ok, r) ==
    IF ~fs[local_path].exists THEN [url |-> 0, storage |-> bucket]
    ELSE IF fs[local_path].size = 0 THEN [url |-> 0, storage |-> bucket]
    ELSE IF ~provider_ok THEN [url |-> 0, storage |-> bucket]
    ELSE [ url |-> Len(bucket) + 1,
           storage |-> Append(bucket, StoredObject(fs[local_path], local_path, r)) ]

\* ------------------------------------------------ detection and annotation

\* cv_analysis.analyze_image_combined as the orchestrator sees it: a list of
\* n detections of the image in image_path; the engine never raises, and
\* with an unreadable image both detectors fail and the list is empty.
analyze_image_combined(fs, image_path, n) ==
    IF ~fs[image_path].exists THEN << >>
    ELSE [i \in 1..n |-> [id |-> i, run |-> fs[image_path].run]]

\* cv_analysis.draw_bounding_boxes: True after image.save(output_path) wrote
\* the annotated copy, False (file untouched) on any exception.
draw_bounding_boxes(fs, image_path, output_path, drawn) ==
    IF ~fs[image_path].exists \/ ~drawn
    THEN [ok |-> FALSE, files |-> fs]
    ELSE [ ok |-> TRUE,
           files |-> [fs EXCEPT ![output_path] = FileOf(1, fs[image_path].run)] ]

\* --------------------------------------------------------------- fusion engine

\* Scores are in hundredths; confidence_threshold's default is 0.3.
ConfidenceThreshold == 30

\* Labels are strings of characters, to follow str.lower(), str.split() and
\* the 'in' test on them.
Uppercase == <<"A", "B", "C", "D", "E", "F", "G", "H", "I", "J", "K", "L", "M",
               "N", "O", "P", "Q", "R", "S", "T", "U", "V", "W", "X", "Y", "Z">>
Lowercase == <<"a", "b", "c", "d", "e", "f", "g", "h", "i", "j", "k", "l", "m",
               "n", "o", "p", "q", "r", "s", "t", "u", "v", "w", "x", "y", "z">>

LowerChar(c) ==
    IF \E i \in DOMAIN Uppercase : Uppercase[i] = c
    THEN Lowercase[CHOOSE i \in DOMAIN Uppercase : Uppercase[i] = c]
    ELSE c

\* label.lower()
lower(label) == [i \in DOMAIN label |-> LowerChar(label[i])]

\* The position of the first blank of the label, Len + 1 when it has none.
FirstBlank(label) ==
    IF \E i \in DOMAIN label : label[i] = " "
    THEN CHOOSE i \in DOMAIN label :
            label[i] = " " /\ \A j \in 1..(i - 1) : label[j] # " "
    ELSE Len(label) + 1

\* label.split(): the words between runs of blanks, in order.
RECURSIVE split(_)
split(label) ==
    IF label = << >> THEN << >>
    ELSE IF Head(label) = " " THEN split(Tail(label))
    ELSE LET n == FirstBlank(label)
         IN  <<SubSeq(label, 1, n - 1)>> \o split(SubSeq(label, n, Len(label)))

\* word in label: the word occurs somewhere in the label, as a substring.
Contains(label, word) ==
    \E i \in 0..(Len(label) - Len(word)) : SubSeq(label, i + 1, i + Len(word)) = word

\* The label test of the duplicate scan (lines 213-215).
similar_labels(a, b) ==
    \/ lower(a) = lower(b)
    \/ \E k \in DOMAIN split(lower(b)) : Contains(lower(a), split(lower(b))[k])
    \/ \E k \in DOMAIN split(lower(a)) : Contains(lower(b), split(lower(a))[k])

Box(xmin, ymin, xmax, ymax) == [xmin |-> xmin, ymin |-> ymin, xmax |-> xmax, ymax |-> ymax]

Detection(label, score, box) == [label |-> label, score |-> score, box |-> box]

Max(a, b) == IF a >= b THEN a ELSE b
Min(a, b) == IF a <= b THEN a ELSE b

\* A float that is a quotient of the integers den and num.
Ratio(num, den) == [num |-> num, den |-> den]
Greater(r, q) == r.num * q.den > q.num * r.den

\* The 1e-6 added to the union area is 1 / IouEpsilonInverse.
IouEpsilonInverse == 1000000

\* The overlap above which two boxes are the same object: 0.5.
IouThreshold == Ratio(1, 2)

\* The overlap measure without the test for boxes that do not overlap.
iou_OverlapUnchecked(box1, box2) ==
    LET x1 == Max(box1.xmin, box2.xmin)
        y1 == Max(box1.ymin, box2.ymin)
        x2 == Min(box1.xmax, box2.xmax)
        y2 == Min(box1.ymax, box2.ymax)
        inter_area == (x2 - x1) * (y2 - y1)
        box1_area == (box1.xmax - box1.xmin) * (box1.ymax - box1.ymin)
        box2_area == (box2.xmax - box2.xmin) * (box2.ymax - box2.ymin)
        union_area == box1_area + box2_area - inter_area
    IN  Ratio(inter_area * IouEpsilonInverse, union_area * IouEpsilonInverse + 1)

\* iou(box1, box2): inter_area / (union_area + 1e-6), 0.0 when the boxes do
\* not overlap in a region of positive width and height.
iou(box1, box2) ==
    LET x1 == Max(box1.xmin, box2.xmin)
        y1 == Max(box1.ymin, box2.ymin)
        x2 == Min(box1.xmax, box2.xmax)
        y2 == Min(box1.ymax, box2.ymax)
        inter_area == (x2 - x1) * (y2 - y1)
        box1_area == (box1.xmax - box1.xmin) * (box1.ymax - box1.ymin)
        box2_area == (box2.xmax - box2.xmin) * (box2.ymax - box2.ymin)
        union_area == box1_area + box2_area - inter_area
    IN  IF x2 <= x1 \/ y2 <= y1 THEN Ratio(0, 1)
        ELSE Ratio(inter_area * IouEpsilonInverse, union_area * IouEpsilonInverse + 1)

\* The test under which the scan takes det for a duplicate of existing.
same_object(det, existing) ==
    /\ similar_labels(det.label, existing.label)
    /\ Greater(iou(det.box, existing.box), IouThreshold)

\* The inner loop: the first kept detection that det duplicates, 0 when none.
FirstDuplicate(final, det) ==
    LET dup == {i \in DOMAIN final : same_object(det, final[i])}
    IN  IF dup = {} THEN 0 ELSE CHOOSE i \in dup : \A j \in dup : i <= j

\* One round of the outer loop: det replaces the duplicate it outscores, is
\* dropped when it does not, and is appended when it duplicates nothing.
Scan(final, det) ==
    LET i == FirstDuplicate(final, det)
    IN  IF i = 0 THEN Append(final, det)
        ELSE IF det.score > final[i].score THEN [final EXCEPT ![i] = det]
        ELSE final

\* Lines 207-233: final_detections after the loop over combined_detections.
RECURSIVE remove_duplicates(_)
remove_duplicates(combined) ==
    IF combined = << >> THEN << >>
    ELSE Scan(remove_duplicates(SubSeq(combined, 1, Len(combined) - 1)),
              combined[Len(combined)])

\* What a detector hands to the loop that converts its results: the detection,
\* and whether converting it raises (a missing key, a coordinate that int()
\* rejects).
RawResult(det, raises) == [det |-> det, raises |-> raises]

Truck == <<"t", "r", "u", "c", "k">>
TruckCapital == <<"T", "r", "u", "c", "k">>
FireTruck == <<"f", "i", "r", "e", " ", "t", "r", "u", "c", "k">>
Bench == <<"b", "e", "n", "c", "h">>

\* Two trucks side by side that overlap by a quarter, one between them that
\* overlaps each by more than half, and a faint bench elsewhere.
TruckLeft == Detection(Truck, 50, Box(0, 0, 10, 10))
TruckRight == Detection(Truck, 60, Box(6, 0, 16, 10))
TruckMiddle == Detection(TruckCapital, 90, Box(3, 0, 13, 10))
FireTruckLeft == Detection(FireTruck, 70, Box(0, 0, 10, 10))
FaintBench == Detection(Bench, 20, Box(20, 0, 30, 10))

RawSamples ==
    {RawResult(d, FALSE) : d \in {TruckLeft, TruckRight, TruckMiddle, FireTruckLeft, FaintBench}}
        \cup {RawResult(TruckLeft, TRUE)}

\* The detectors' own thresholding (the processor's and predict's) has
\* removed the results at or below the threshold.
ThresholdedSamples == {r \in RawSamples : r.det.score > ConfidenceThreshold}

\* Lines 52-72: the results that convert and reach the threshold; one that
\* raises is skipped.
RECURSIVE fb_filtered(_)
fb_filtered(fb_results) ==
    IF fb_results = << >> THEN << >>
    ELSE LET r == Head(fb_results)
         IN  IF ~r.raises /\ r.det.score >= ConfidenceThreshold
             THEN <<r.det>> \o fb_filtered(Tail(fb_results))
             ELSE fb_filtered(Tail(fb_results))

\* A loop that appends each converted result to combined_detections itself
\* (lines 92-103, 161-178): what it has appended when it ends or raises.
RECURSIVE AppendedByLoop(_)
AppendedByLoop(raw) ==
    IF raw = << >> \/ Head(raw).raises THEN << >>
    ELSE <<Head(raw).det>> \o AppendedByLoop(Tail(raw))

LoopRaises(raw) == \E i \in DOMAIN raw : raw[i].raises

\* ---------------------------------------------------------- report generator

\* The value under "issues": a JSON list (of issue objects and/or strings),
\* null, a number or a string; items is empty unless it is a list.
IssuesList(items) == [t |-> "list", items |-> items]
IssuesNull == [t |-> "null", items |-> << >>]
IssuesNumber == [t |-> "number", items |-> << >>]

\* Python truthiness of the issues value (the number is non-zero).
Truthy(issues) ==
    CASE issues.t = "list" -> issues.items # << >>
      [] issues.t = "null" -> FALSE
      [] OTHER -> TRUE

ReportKeys == {"summary", "issues"}

\* A dict with its keys; summary and issues are the values under those keys
\* (meaningless for a key the dict does not have). The summary, by kind:
\*   "plain"     a model summary without the letters "no" in either case
\*   "with_no"   a model summary containing "no" ("There are no issues.")
\*   "with_No"   one containing it capitalised only ("No issues found.")
\*   "no_inside" one with the letters inside a word only ("Cracks noted.")
\*   "not_text"  a summary that is not a string (JSON null or number)
\*   the others  the fixed or generated summaries of the code
Dict(keys, summary, issues) == [keys |-> keys, summary |-> summary, issues |-> issues]

\* A Report: a dict with exactly the two keys.
Report(summary, issues) == Dict(ReportKeys, summary, issues)

\* summary.lower(): the capitalised "No" becomes "no" ("No objects detected.
\* This may be ..." likewise).
summary_lower(summary) ==
    IF summary \in {"with_No", "no_objects"} THEN "with_no" ELSE summary

\* 'no' in text, for a text as it stands ("Could not parse ..." has it).
HasLowercaseNo(text) == text \in {"with_no", "no_inside", "could_not_parse"}

\* The test without .lower().
ContainsNo_CaseSensitive(summary) == HasLowercaseNo(summary)

\* 'no' in summary.lower(); raises AttributeError when summary is no string
\* (the caller tests for "not_text" first).
ContainsNo(summary) == HasLowercaseNo(summary_lower(summary))

\* f"Found {len(result['issues'])} infrastructure issues requiring attention."
FoundSummary(n) == <<"found_1", "found_2", "found_3">>[n]

\* The model's answer: the invocation raises, or returns a text of one of
\* these shapes, around the JSON object obj:
\*   "json"        the trimmed text is the object and nothing else
\*   "prose_json"  the object with prose before and/or after it
\*   "py_literal"  the object written as a Python literal (single quotes),
\*                 which json.loads rejects and ast.literal_eval accepts
\*   "fragment"    no complete object, but a "summary": "..." pair
\*   "garbage"     neither
\* keys is the set of keys the object has.
Response(raises, shape, keys, summary, issues) ==
    [ raises |-> raises, shape |-> shape, keys |-> keys,
      obj |-> Dict(keys, summary, issues) ]

AnIssue == "issue_object"
AString == "string"

LLMResponses ==
    { Response(TRUE, "garbage", {}, "plain", IssuesList(<< >>)),
      Response(FALSE, "json", ReportKeys, "plain", IssuesList(<< >>)),
      Response(FALSE, "json", ReportKeys, "with_no", IssuesList(<<AnIssue>>)),
      Response(FALSE, "json", ReportKeys, "plain", IssuesList(<<AnIssue, AnIssue>>)),
      Response(FALSE, "json", ReportKeys, "plain", IssuesList(<<AString>>)),
      Response(FALSE, "json", ReportKeys, "plain", IssuesNull),
      Response(FALSE, "json", ReportKeys, "with_no", IssuesNumber),
      Response(FALSE, "json", ReportKeys, "not_text", IssuesList(<<AnIssue>>)),
      Response(FALSE, "json", {"summary"}, "plain", IssuesList(<< >>)),
      Response(FALSE, "json", ReportKeys, "with_No", IssuesList(<<AnIssue>>)),
      Response(FALSE, "json", ReportKeys, "no_inside", IssuesList(<<AnIssue>>)),
      Response(FALSE, "json", ReportKeys \cup {"confidence"}, "plain", IssuesList(<<AnIssue>>)),
      Response(FALSE, "prose_json", ReportKeys, "with_no", IssuesList(<<AString, AString>>)),
      Response(FALSE, "prose_json", {"issues"}, "plain", IssuesList(<< >>)),
      Response(FALSE, "py_literal", {"summary"}, "plain", IssuesList(<< >>)),
      Response(FALSE, "fragment", {"summary"}, "plain", IssuesList(<< >>)),
      Response(FALSE, "prose_json", ReportKeys, "plain", IssuesList(<< >>)),
      Response(FALSE, "prose_json", ReportKeys, "plain", IssuesList(<<AnIssue>>)),
      Response(FALSE, "py_literal", ReportKeys, "plain", IssuesList(<<AString>>)),
      Response(FALSE, "py_literal", ReportKeys, "plain", IssuesList(<<AnIssue>>)),
      Response(FALSE, "fragment", {"summary"}, "with_no", IssuesList(<< >>)),
      Response(FALSE, "garbage", {}, "plain", IssuesList(<< >>)) }

\* The first regex match ends at the first "}" after "issues", the second at
\* the first "}" of the text: either is the whole object only when the object
\* holds no nested object.
HasNestedObject(obj) ==
    obj.issues.t = "list" /\ \E i \in DOMAIN obj.issues.items : obj.issues.items[i] = AnIssue

\* re.search(r'"summary":\s*"([^"]*)"', text) finds a pair: a summary key in
\* double quotes with a string value.
HasSummaryPair(resp) ==
    /\ resp.shape \in {"json", "prose_json", "fragment"}
    /\ "summary" \in resp.keys
    /\ resp.obj.summary # "not_text"

\* The cascade without its summary-pair stage.
extraction_stage_WithoutSummaryPair(resp) ==
    IF resp.shape = "json" /\ ReportKeys \subseteq resp.keys THEN 1
    ELSE IF /\ resp.shape \in {"json", "prose_json"}
            /\ ReportKeys \subseteq resp.keys
            /\ ~HasNestedObject(resp.obj) THEN 2
    ELSE IF /\ resp.shape = "py_literal"
            /\ ReportKeys \subseteq resp.keys
            /\ ~HasNestedObject(resp.obj) THEN 3
    ELSE 5

\* The stage of the cascade that returns: 1 the direct parse of the text,
\* 2 a regex match parsed by json.loads, 3 a regex match parsed by
\* ast.literal_eval, 4 the summary pair, 5 the fixed fallback.
extraction_stage(resp) ==
    IF resp.shape = "json" /\ ReportKeys \subseteq resp.keys THEN 1
    ELSE IF /\ resp.shape \in {"json", "prose_json"}
            /\ ReportKeys \subseteq resp.keys
            /\ ~HasNestedObject(resp.obj) THEN 2
    ELSE IF /\ resp.shape = "py_literal"
            /\ ReportKeys \subseteq resp.keys
            /\ ~HasNestedObject(resp.obj) THEN 3
    ELSE IF HasSummaryPair(resp) THEN 4
    ELSE 5

\* An extraction that rebuilds the parsed object from its two known keys.
extract_report_dict_TwoKeysOnly(resp) ==
    CASE extraction_stage(resp) \in {1, 2, 3, 4} -> Report(resp.obj.summary, resp.obj.issues)
      [] OTHER -> Report("could_not_parse", IssuesList(<< >>))

\* analyst_chain.extract_report_dict
extract_report_dict(resp) ==
    CASE extraction_stage(resp) \in {1, 2, 3} -> resp.obj
      [] extraction_stage(resp) = 4 -> Report(resp.obj.summary, IssuesList(<< >>))
      [] OTHER -> Report("could_not_parse", IssuesList(<< >>))

\* A generator that hands back whatever object the answer held, without the
\* test for the two keys.
generate_report_KeysUnchecked(detections, resp) ==
    IF detections = << >> THEN
        [report |-> Report("no_objects", IssuesList(<< >>)), calls |-> 0]
    ELSE IF resp.raises THEN
        [report |-> Report("llm_error", IssuesList(<< >>)), calls |-> 1]
    ELSE
        [report |-> resp.obj, calls |-> 1]

\* analyst_chain.generate_report: the report and the number of model calls.
generate_report(detections, resp) ==
    IF detections = << >> THEN
        [report |-> Report("no_objects", IssuesList(<< >>)), calls |-> 0]
    ELSE IF resp.raises THEN
        [report |-> Report("llm_error", IssuesList(<< >>)), calls |-> 1]
    ELSE
        LET result == extract_report_dict(resp)
        IN  IF ~Truthy(result.issues) THEN
                [report |-> result, calls |-> 1]
            ELSE IF result.summary = "not_text" THEN
                \* .lower() raises; caught by generate_report's except
                [report |-> Report("llm_error", IssuesList(<< >>)), calls |-> 1]
            ELSE IF ~ContainsNo(result.summary) THEN
                [report |-> result, calls |-> 1]
            ELSE IF result.issues.t = "number" THEN
                \* len() of a number raises; caught likewise
                [report |-> Report("llm_error", IssuesList(<< >>)), calls |-> 1]
            ELSE
                [ report |-> [result EXCEPT !.summary = FoundSummary(Len(result.issues.items))],
                  calls |-> 1 ]

\* json.dumps(report, indent=2): the serialized text, which json.loads maps
\* back to the report it was made from.
json_dumps(report) == [json_of |-> report]

\* main's loop that prints the report: len(issues) raises TypeError for null
\* and numbers, issue.get raises AttributeError for an item that is no dict.
PrintingReportRaises(report) ==
    \/ report.issues.t \in {"null", "number"}
    \/ \E i \in DOMAIN report.issues.items : report.issues.items[i] # AnIssue

\* ------------------------------------------------------------------ database

\* Lines 37-46: a structured report that is a dict gets the keys it lacks,
\* with "No summary provided" and an empty issues list. (main always passes
\* a dict, so the branch that parses a string is not taken.)
with_default_keys(llm_report_structured) ==
    [ keys |-> llm_report_structured.keys \cup ReportKeys,
      summary |-> IF "summary" \in llm_report_structured.keys
                  THEN llm_report_structured.summary
                  ELSE "no_summary_provided",
      issues |-> IF "issues" \in llm_report_structured.keys
                 THEN llm_report_structured.issues
                 ELSE IssuesList(<< >>) ]

\* database.store_scan_data: the row returned (its id, 0 for None) and the
\* scans table after the call. The insert either adds the row and returns it
\* or, when the datastore refuses or the call raises, adds nothing. by is the
\* run of main that made the call (kept for the record, not a column).
store_scan_data(latitude, longitude, image_url, annotated_image_url, detection_results, llm_report_text, llm_report_structured, table, db_ok, by) ==
    LET data_to_insert ==
            [ id |-> Len(table) + 1,
              latitude |-> latitude.val,
              longitude |-> longitude.val,
              image_url |-> IF image_url # 0 THEN image_url ELSE 0,
              annotated_image_url |->
                  IF annotated_image_url # 0 THEN annotated_image_url ELSE 0,
              detection_results |-> detection_results,
              llm_report |-> llm_report_text,
              llm_report_structured |-> with_default_keys(llm_report_structured),
              by |-> by ]
    IN  IF db_ok
        THEN [row |-> data_to_insert.id, scans |-> Append(table, data_to_insert)]
        ELSE [row |-> 0, scans |-> table]

\* ----------------------------------------------------------------- the state

VARIABLES
    \* the caller: scan_with_retry or scan_multiple_locations
    mode,            \* "retry" or "batch"
    wpc,             \* the caller's position: "loop", "in_main", "sleep", "done"
    max_retries,     \* scan_with_retry's argument
    attempt,         \* scan_with_retry's loop variable
    locations,       \* scan_multiple_locations' argument
    loc_index,       \* its position in the list (1-based)
    results,         \* its summary: successful, failed, total
    ret,             \* what the caller returned: "none" until it returns
    log,             \* main's results and the pauses, in order
    \* main's frame
    lat, lon,        \* main's arguments
    pc,              \* main's position
    image_path,
    public_image_url,
    detections,
    annotation_success,
    annotated_image_path,
    public_annotated_image_url,
    llm_report,
    database_result,
    main_result,     \* "none", "True", "False"; "raised" for an exception
    steps,           \* the steps this run of main has entered, in order
    calls,           \* how often this run called each collaborator
    run,             \* how many times main has been entered
    \* the world
    files,           \* the scratch files, by path
    storage,         \* the bucket
    scans,           \* the scans table
    \* analyze_image_combined's frame, for the fusion engine on its own
    fpc,                  \* its position: "detr", "fallback", "dino", "dedup",
                          \* "returned"; "raised" for an exception
    has_dino,             \* the module flag set by the import of Grounding DINO
    combined_detections,
    final_detections,
    detr_outcome,         \* "none", "ok", "failed"
    dino_outcome,         \* "none", "ok", "failed", "unavailable"
    produced,             \* what the detectors that did not fail produced
    scanned,              \* how many of combined_detections the duplicate scan
                          \* has been through
    \* generate_report's frame, for the report generator on its own
    gpc,                  \* its position: "start", "invoke", "extract", "repair",
                          \* "except", "returned"; "raised" for an exception
    gen_detections,       \* its argument
    response,             \* the model's answer
    gen_result,           \* what extract_report_dict returned (its 'result')
    stage,                \* the stage of the cascade that returned it
    report,               \* what generate_report returned
    model_calls,          \* how often the model was invoked
    \* fetch_multiple_angles' frame, for the fetcher on its own
    fetch_pc,             \* "idle", "loop", "returned"
    fetch_latitude,       \* its arguments
    fetch_longitude,
    angles,
    angle_index,          \* its position in angles (1-based)
    saved_images,         \* the paths the fetcher returned
    angle_files,          \* the files at the angles' paths
    http_gets,            \* the "location" parameters of the GETs issued
    last_fetch,           \* what the last call of the fetcher returned, with
                          \* its save_path and what it met
    \* iou's frame, for the overlap measure on its own
    ipc,                  \* "start", "returned"
    first_box,            \* its arguments (box1 and box2)
    second_box,
    iou_value,            \* what it returned
    \* draw_bounding_boxes' frame, for the annotator on its own
    apc,                  \* "idle", "open", "loop", "save", "returned"
    ann_detections,       \* its argument 'detections'
    ann_index,            \* the loop's position in it (1-based)
    rectangles,           \* the outline rectangles drawn, each with the
                          \* position of its detection
    draw_failures,        \* per detection gone through: whether drawing it
                          \* raised, and where
    ann_result            \* what it returned

callerVars == <<mode, wpc, max_retries, attempt, locations, loc_index, results, ret, log>>
frameVars == <<lat, lon, pc, image_path, public_image_url, detections,
               annotation_success, annotated_image_path,
               public_annotated_image_url, llm_report, database_result,
               main_result, steps, calls, run>>
worldVars == <<files, storage, scans>>
fusionVars == <<fpc, has_dino, combined_detections, final_detections,
                detr_outcome, dino_outcome, produced, scanned>>
reportVars == <<gpc, gen_detections, response, gen_result, stage, report, model_calls>>
fetchVars == <<fetch_pc, fetch_latitude, fetch_longitude, angles, angle_index,
               saved_images, angle_files, http_gets, last_fetch>>
iouVars == <<ipc, first_box, second_box, iou_value>>
annotateVars == <<apc, ann_detections, ann_index, rectangles, draw_failures, ann_result>>
unitVars == <<fusionVars, reportVars, fetchVars, iouVars, annotateVars>>
vars == <<callerVars, frameVars, worldVars, unitVars>>

Collaborators == {"fetch", "http_get", "upload", "detect", "annotate",
                  "generate_report", "llm", "insert"}

NoCalls == [c \in Collaborators |-> 0]

\* The entries of log: a run of main with its result, or a pause in seconds.
MainEvent(result) == [ev |-> "main", result |-> result, seconds |-> 0]
SleepEvent(seconds) == [ev |-> "sleep", result |-> "none", seconds |-> seconds]
NoReport == Report("none", IssuesList(<< >>))

\* The location lists given to scan_multiple_locations: (lat, lon, name).
BatchLocation ==
    { <<Num(407128), Num(-740060), "New York City">>,
      <<Num(91 * Scale), Num(0), "Nowhere">> }

RECURSIVE ListsUpTo(_, _)
ListsUpTo(S, n) ==
    IF n = 0 THEN {<< >>}
    ELSE LET shorter == ListsUpTo(S, n - 1)
         IN  shorter \cup {Append(l, x) : l \in {m \in shorter : Len(m) = n - 1}, x \in S}

\* A frame before main has been entered.
FreshFrame ==
    /\ image_path = "None"
    /\ public_image_url = 0
    /\ detections = << >>
    /\ annotation_success = FALSE
    /\ annotated_image_path = "None"
    /\ public_annotated_image_url = 0
    /\ llm_report = NoReport
    /\ database_result = 0
    /\ main_result = "none"
    /\ calls = NoCalls

NoResponse == Response(FALSE, "none", {}, "none", IssuesList(<< >>))

\* generate_report is not being called on its own.
ReportIdle ==
    /\ gpc = "idle"
    /\ gen_detections = << >>
    /\ response = NoResponse
    /\ gen_result = NoReport
    /\ stage = 0
    /\ report = NoReport
    /\ model_calls = 0

\* The default of fetch_multiple_angles' angles and the path of each angle:
\* f"{base_save_path}_{angle}.jpg".
DefaultAngles == <<0, 90, 180, 270>>
AnglePath(angle) ==
    CASE angle = 0 -> "street_view_0.jpg"
      [] angle = 90 -> "street_view_90.jpg"
      [] angle = 180 -> "street_view_180.jpg"
      [] angle = 270 -> "street_view_270.jpg"
AnglePaths == {AnglePath(DefaultAngles[i]) : i \in DOMAIN DefaultAngles}

NoFetch ==
    [ path |-> "None", gets |-> 0, location |-> << >>, save_path |-> "None",
      env |-> [ api_key |-> FALSE, transport |-> "ok", status |-> 200,
                image |-> FALSE, size |-> 0, writable |-> FALSE ] ]

\* fetch_multiple_angles is not being called on its own.
FetchIdle ==
    /\ fetch_pc = "idle"
    /\ fetch_latitude = Num(0) /\ fetch_longitude = Num(0)
    /\ angles = << >>
    /\ angle_index = 1
    /\ saved_images = << >>
    /\ angle_files = [p \in AnglePaths |-> Absent]
    /\ http_gets = << >>
    /\ last_fetch = NoFetch

\* Nothing of the orchestrator is running: the functions are called on their own.
OrchestratorIdle ==
    /\ mode = "none" /\ wpc = "done"
    /\ lat = Num(0) /\ lon = Num(0)
    /\ max_retries = 0
    /\ locations = << >>
    /\ attempt = 0
    /\ loc_index = 1
    /\ results = [successful |-> << >>, failed |-> << >>, total |-> 0]
    /\ ret = "none"
    /\ log = << >>
    /\ pc = "Idle"
    /\ FreshFrame
    /\ steps = << >>
    /\ run = 0
    /\ files = [p \in Paths |-> Absent]
    /\ storage = << >>
    /\ scans = << >>

\* analyze_image_combined is not being called on its own.
FusionIdle ==
    /\ fpc = "idle"
    /\ has_dino = FALSE
    /\ combined_detections = << >>
    /\ final_detections = << >>
    /\ detr_outcome = "none"
    /\ dino_outcome = "none"
    /\ produced = << >>
    /\ scanned = 0

\* iou is not being called on its own.
IouIdle ==
    /\ ipc = "idle"
    /\ first_box = Box(0, 0, 0, 0)
    /\ second_box = Box(0, 0, 0, 0)
    /\ iou_value = Ratio(0, 1)

\* draw_bounding_boxes is not being called on its own.
AnnotateIdle ==
    /\ apc = "idle"
    /\ ann_detections = << >>
    /\ ann_index = 1
    /\ rectangles = << >>
    /\ draw_failures = << >>
    /\ ann_result = "none"

Init ==
    /\ AnnotateIdle
    /\ IouIdle
    /\ FusionIdle
    /\ ReportIdle
    /\ FetchIdle
    /\ \/ /\ mode = "retry"
          /\ \E c \in TestCoordinates : lat = c[1] /\ lon = c[2]
          /\ max_retries \in 0..MaxRetriesArg
          /\ locations = << >>
       \/ /\ mode = "batch"
          /\ lat = Num(0) /\ lon = Num(0)
          /\ max_retries = 0
          /\ locations \in ListsUpTo(BatchLocation, MaxLocations)
    /\ wpc = "loop"
    /\ attempt = 0
    /\ loc_index = 1
    /\ results = [successful |-> << >>, failed |-> << >>, total |-> Len(locations)]
    /\ ret = "none"
    /\ log = << >>
    /\ pc = "Idle"
    /\ FreshFrame
    /\ steps = << >>
    /\ run = 0
    /\ files = [p \in Paths |-> Absent]
    /\ storage = << >>
    /\ scans = << >>

\* ---------------------------------------------------------------------- main

Called(c) == calls' = [calls EXCEPT ![c] = @ + 1]

\* "return value" out of main: the frame is left for the caller to read.
Return(value) ==
    /\ pc' = IF value = "True" THEN "Done" ELSE "Failed"
    /\ main_result' = value
    /\ steps' = steps

\* An exception raised inside main's try block goes to its except clause.
Raise == pc' = "Except" /\ main_result' = main_result /\ steps' = steps

Goto(step) ==
    /\ pc' = step
    /\ steps' = Append(steps, step)
    /\ main_result' = main_result

\* The caller enters main(lat, lon) with a new frame.
EnterMain(latitude, longitude) ==
    /\ lat' = latitude
    /\ lon' = longitude
    /\ pc' = "Validating"
    /\ steps' = <<"Validating">>
    /\ run' = run + 1
    /\ image_path' = "None"
    /\ public_image_url' = 0
    /\ detections' = << >>
    /\ annotation_success' = FALSE
    /\ annotated_image_path' = "None"
    /\ public_annotated_image_url' = 0
    /\ llm_report' = NoReport
    /\ database_result' = 0
    /\ main_result' = "none"
    /\ calls' = NoCalls

\* if not validate_coordinates(lat, lon): return False
Validating ==
    /\ pc = "Validating"
    /\ IF validate_coordinates(lat, lon)
       THEN Goto("FetchingImage")
       ELSE Return("False")
    /\ UNCHANGED <<callerVars, worldVars, lat, lon, image_path, public_image_url,
                   detections, annotation_success, annotated_image_path,
                   public_annotated_image_url, llm_report, database_result,
                   calls, run>>
    /\ UNCHANGED unitVars

\* Step 1: image_path = fetch_street_view_image(lat, lon, "latest_scan.jpg")
FetchingImage ==
    /\ pc = "FetchingImage"
    /\ \E env \in FetchEnvironments :
          LET got == fetch_street_view_image(lat, lon, files, ScanPath, env, run)
          IN  /\ image_path' = got.path
              /\ files' = got.files
              /\ calls' = [calls EXCEPT !["fetch"] = @ + 1,
                                        !["http_get"] = @ + got.gets]
              /\ IF got.path = "None"
                 THEN Return("False")
                 ELSE Goto("UploadingOriginal")
    /\ UNCHANGED <<callerVars, storage, scans, lat, lon, public_image_url,
                   detections, annotation_success, annotated_image_path,
                   public_annotated_image_url, llm_report, database_result, run>>
    /\ UNCHANGED unitVars

\* Step 2 without the test of the returned URL.
UploadingOriginal_Unchecked ==
    /\ pc = "UploadingOriginal"
    /\ \E provider_ok \in BOOLEAN :
          LET up == upload_image_to_supabase(files, image_path, storage, provider_ok, run)
          IN  /\ public_image_url' = up.url
              /\ storage' = up.storage
    /\ Goto("Detecting")
    /\ Called("upload")
    /\ UNCHANGED <<callerVars, files, scans, lat, lon, image_path, detections,
                   annotation_success, annotated_image_path,
                   public_annotated_image_url, llm_report, database_result, run>>
    /\ UNCHANGED unitVars

\* Step 2: public_image_url = upload_image_to_supabase(image_path)
UploadingOriginal ==
    /\ pc = "UploadingOriginal"
    /\ \E provider_ok \in BOOLEAN :
          LET up == upload_image_to_supabase(files, image_path, storage, provider_ok, run)
          IN  /\ public_image_url' = up.url
              /\ storage' = up.storage
              /\ IF up.url = 0
                 THEN Return("False")
                 ELSE Goto("Detecting")
    /\ Called("upload")
    /\ UNCHANGED <<callerVars, files, scans, lat, lon, image_path, detections,
                   annotation_success, annotated_image_path,
                   public_annotated_image_url, llm_report, database_result, run>>
    /\ UNCHANGED unitVars

\* Step 3: detections = analyze_image_combined(image_path, 0.3)
Detecting ==
    /\ pc = "Detecting"
    /\ \E n \in 0..MaxDetections :
          detections' = analyze_image_combined(files, image_path, n)
    /\ Called("detect")
    /\ Goto("Annotating")
    /\ UNCHANGED <<callerVars, worldVars, lat, lon, image_path, public_image_url,
                   annotation_success, annotated_image_path,
                   public_annotated_image_url, llm_report, database_result, run>>
    /\ UNCHANGED unitVars

\* Step 4 and the else branch of step 5: draw the boxes; when that fails the
\* annotated path and URL are the original's and no upload is made.
Annotating ==
    /\ pc = "Annotating"
    /\ \E drawn \in BOOLEAN :
          LET ann == draw_bounding_boxes(files, image_path, AnnotatedPath, drawn)
          IN  /\ annotation_success' = ann.ok
              /\ files' = ann.files
              /\ IF ann.ok
                 THEN /\ annotated_image_path' = AnnotatedPath
                      /\ public_annotated_image_url' = public_annotated_image_url
                      /\ Goto("UploadingAnnotated")
                 ELSE /\ annotated_image_path' = image_path
                      /\ public_annotated_image_url' = public_image_url
                      /\ Goto("GeneratingReport")
    /\ Called("annotate")
    /\ UNCHANGED <<callerVars, storage, scans, lat, lon, image_path,
                   public_image_url, detections, llm_report, database_result, run>>
    /\ UNCHANGED unitVars

\* Step 5 entered once more when the upload returned no URL.
UploadingAnnotated_Again ==
    /\ pc = "UploadingAnnotated"
    /\ \E provider_ok \in BOOLEAN :
          LET up == upload_image_to_supabase(files, annotated_image_path, storage, provider_ok, run)
          IN  /\ storage' = up.storage
              /\ public_annotated_image_url' =
                     IF up.url # 0 THEN up.url ELSE public_image_url
              /\ IF up.url = 0 /\ calls["upload"] < 2
                 THEN Goto("UploadingAnnotated")
                 ELSE Goto("GeneratingReport")
    /\ Called("upload")
    /\ UNCHANGED <<callerVars, files, scans, lat, lon, image_path,
                   public_image_url, detections, annotation_success,
                   annotated_image_path, llm_report, database_result, run>>
    /\ UNCHANGED unitVars

\* Step 5: upload the annotated image; a null URL falls back to the original's.
UploadingAnnotated ==
    /\ pc = "UploadingAnnotated"
    /\ \E provider_ok \in BOOLEAN :
          LET up == upload_image_to_supabase(files, annotated_image_path, storage, provider_ok, run)
          IN  /\ storage' = up.storage
              /\ public_annotated_image_url' =
                     IF up.url # 0 THEN up.url ELSE public_image_url
    /\ Called("upload")
    /\ Goto("GeneratingReport")
    /\ UNCHANGED <<callerVars, files, scans, lat, lon, image_path,
                   public_image_url, detections, annotation_success,
                   annotated_image_path, llm_report, database_result, run>>
    /\ UNCHANGED unitVars

\* Step 6: llm_report = generate_report(detections), then the loop printing
\* its issues. generate_report always returns a non-empty dict, so the branch
\* installing main's own fallback report is never taken.
GeneratingReport ==
    /\ pc = "GeneratingReport"
    /\ \E resp \in LLMResponses :
          LET gen == generate_report(detections, resp)
          IN  /\ llm_report' = gen.report
              /\ calls' = [calls EXCEPT !["generate_report"] = @ + 1,
                                        !["llm"] = @ + gen.calls]
              /\ IF PrintingReportRaises(gen.report)
                 THEN Raise
                 ELSE Goto("Persisting")
    /\ UNCHANGED <<callerVars, worldVars, lat, lon, image_path, public_image_url,
                   detections, annotation_success, annotated_image_path,
                   public_annotated_image_url, database_result, run>>
    /\ UNCHANGED unitVars

\* Steps 7 and 8 without the test of the returned row.
Persisting_IgnoringNullRow ==
    /\ pc = "Persisting"
    /\ \E db_ok \in BOOLEAN :
          LET stored == store_scan_data(lat, lon, public_image_url,
                            public_annotated_image_url, detections,
                            json_dumps(llm_report), llm_report, scans, db_ok, run)
          IN  /\ database_result' = stored.row
              /\ scans' = stored.scans
    /\ Goto("CleaningUp")
    /\ Called("insert")
    /\ UNCHANGED <<callerVars, files, storage, lat, lon, image_path,
                   public_image_url, detections, annotation_success,
                   annotated_image_path, public_annotated_image_url,
                   llm_report, run>>
    /\ UNCHANGED unitVars

\* Steps 7 and 8 with a run that reports failure although the row is stored.
Persisting_FalseAfterInsert ==
    /\ pc = "Persisting"
    /\ \E db_ok \in BOOLEAN :
          LET stored == store_scan_data(lat, lon, public_image_url,
                            public_annotated_image_url, detections,
                            json_dumps(llm_report), llm_report, scans, db_ok, run)
          IN  /\ database_result' = stored.row
              /\ scans' = stored.scans
    /\ Return("False")
    /\ Called("insert")
    /\ UNCHANGED <<callerVars, files, storage, lat, lon, image_path,
                   public_image_url, detections, annotation_success,
                   annotated_image_path, public_annotated_image_url,
                   llm_report, run>>
    /\ UNCHANGED unitVars

\* Steps 7 and 8: serialize the report and store the scan.
Persisting ==
    /\ pc = "Persisting"
    /\ \E db_ok \in BOOLEAN :
          LET stored == store_scan_data(lat, lon, public_image_url,
                            public_annotated_image_url, detections,
                            json_dumps(llm_report), llm_report, scans, db_ok, run)
          IN  /\ database_result' = stored.row
              /\ scans' = stored.scans
              /\ IF stored.row # 0
                 THEN Goto("CleaningUp")
                 ELSE Return("False")
    /\ Called("insert")
    /\ UNCHANGED <<callerVars, files, storage, lat, lon, image_path,
                   public_image_url, detections, annotation_success,
                   annotated_image_path, public_annotated_image_url,
                   llm_report, run>>
    /\ UNCHANGED unitVars

\* os.remove on each path in order, for those that exist; rm says for which
\* paths os.remove succeeds. The first failure raises, which ends the cleanup
\* (both cleanups sit in a try block of their own).
RECURSIVE RemoveInOrder(_, _, _)
RemoveInOrder(fs, paths, rm) ==
    IF paths = << >> THEN fs
    ELSE IF ~fs[Head(paths)].exists THEN RemoveInOrder(fs, Tail(paths), rm)
    ELSE IF rm[Head(paths)]
         THEN RemoveInOrder([fs EXCEPT ![Head(paths)] = Absent], Tail(paths), rm)
         ELSE fs

RemoveOutcomes == [Paths -> BOOLEAN]

\* Step 9, after a stored scan: remove image_path, and the annotated image
\* when one was drawn; then return True.
CleaningUp ==
    /\ pc = "CleaningUp"
    /\ \E rm \in RemoveOutcomes :
          files' = RemoveInOrder(files,
                       IF annotation_success
                       THEN <<image_path, annotated_image_path>>
                       ELSE <<image_path>>, rm)
    /\ Return("True")
    /\ UNCHANGED <<callerVars, storage, scans, lat, lon, image_path,
                   public_image_url, detections, annotation_success,
                   annotated_image_path, public_annotated_image_url,
                   llm_report, database_result, calls, run>>
    /\ UNCHANGED unitVars

\* The except clause raising again after its cleanup.
HandleException_Reraising ==
    /\ pc = "Except"
    /\ \E rm \in RemoveOutcomes :
          files' = RemoveInOrder(files, <<ScanPath, AnnotatedPath>>, rm)
    /\ Return("raised")
    /\ UNCHANGED <<callerVars, storage, scans, lat, lon, image_path,
                   public_image_url, detections, annotation_success,
                   annotated_image_path, public_annotated_image_url,
                   llm_report, database_result, calls, run>>
    /\ UNCHANGED unitVars

\* except Exception: remove both scratch files, return False.
HandleException ==
    /\ pc = "Except"
    /\ \E rm \in RemoveOutcomes :
          files' = RemoveInOrder(files, <<ScanPath, AnnotatedPath>>, rm)
    /\ Return("False")
    /\ UNCHANGED <<callerVars, storage, scans, lat, lon, image_path,
                   public_image_url, detections, annotation_success,
                   annotated_image_path, public_annotated_image_url,
                   llm_report, database_result, calls, run>>
    /\ UNCHANGED unitVars

Returned == pc \in {"Done", "Failed"}

\* ----------------------------------------------------------- scan_with_retry

\* for attempt in range(max_retries + 1): success = main(lat, lon)
RetryCallMain ==
    /\ mode = "retry" /\ wpc = "loop"
    /\ attempt <= max_retries
    /\ EnterMain(lat, lon)
    /\ wpc' = "in_main"
    /\ UNCHANGED <<mode, max_retries, attempt, locations, loc_index, results,
                   ret, log, worldVars>>
    /\ UNCHANGED unitVars

\* The loop without its 'return True': a success is followed by the pause and
\* the next attempt like a failure.
RetryMainReturned_NotStopping ==
    /\ mode = "retry" /\ wpc = "in_main" /\ Returned
    /\ log' = Append(log, MainEvent(main_result))
    /\ pc' = "Idle"
    /\ IF main_result = "raised" THEN
           wpc' = "done" /\ ret' = "raised" /\ attempt' = attempt
       ELSE IF attempt < max_retries THEN
           wpc' = "sleep" /\ ret' = ret /\ attempt' = attempt
       ELSE
           wpc' = "done" /\ ret' = "False" /\ attempt' = attempt + 1
    /\ UNCHANGED <<mode, max_retries, locations, loc_index, results, worldVars,
                   lat, lon, image_path, public_image_url, detections,
                   annotation_success, annotated_image_path,
                   public_annotated_image_url, llm_report, database_result,
                   main_result, steps, calls, run>>
    /\ UNCHANGED unitVars

\* main returned: return True on success; otherwise pause when another
\* attempt follows, and return False after the last one. An exception out of
\* main is not caught here.
RetryMainReturned ==
    /\ mode = "retry" /\ wpc = "in_main" /\ Returned
    /\ log' = Append(log, MainEvent(main_result))
    /\ pc' = "Idle"
    /\ IF main_result = "True" THEN
           wpc' = "done" /\ ret' = "True" /\ attempt' = attempt
       ELSE IF main_result = "raised" THEN
           wpc' = "done" /\ ret' = "raised" /\ attempt' = attempt
       ELSE IF attempt < max_retries THEN
           wpc' = "sleep" /\ ret' = ret /\ attempt' = attempt
       ELSE
           wpc' = "done" /\ ret' = "False" /\ attempt' = attempt + 1
    /\ UNCHANGED <<mode, max_retries, locations, loc_index, results, worldVars,
                   lat, lon, image_path, public_image_url, detections,
                   annotation_success, annotated_image_path,
                   public_annotated_image_url, llm_report, database_result,
                   main_result, steps, calls, run>>
    /\ UNCHANGED unitVars

\* time.sleep(2), then the next iteration.
RetrySleep ==
    /\ mode = "retry" /\ wpc = "sleep"
    /\ log' = Append(log, SleepEvent(RetryPauseSeconds))
    /\ attempt' = attempt + 1
    /\ wpc' = "loop"
    /\ UNCHANGED <<mode, max_retries, locations, loc_index, results, ret,
                   frameVars, worldVars>>
    /\ UNCHANGED unitVars

\* --------------------------------------------------- scan_multiple_locations

\* for i, (lat, lon, name) in enumerate(locations): success = main(lat, lon)
BatchCallMain ==
    /\ mode = "batch" /\ wpc = "loop"
    /\ loc_index <= Len(locations)
    /\ EnterMain(locations[loc_index][1], locations[loc_index][2])
    /\ wpc' = "in_main"
    /\ UNCHANGED <<mode, max_retries, attempt, locations, loc_index, results,
                   ret, log, worldVars>>
    /\ UNCHANGED unitVars

\* The loop leaving at the first failed location instead of going on.
BatchMainReturned_StoppingAtFailure ==
    /\ mode = "batch" /\ wpc = "in_main" /\ Returned
    /\ log' = Append(log, MainEvent(main_result))
    /\ pc' = "Idle"
    /\ IF main_result = "True" THEN
           /\ wpc' = "loop" /\ ret' = ret /\ loc_index' = loc_index + 1
           /\ results' = [results EXCEPT !.successful = Append(@, locations[loc_index])]
       ELSE
           /\ wpc' = "done" /\ ret' = "summary" /\ loc_index' = loc_index
           /\ results' = [results EXCEPT !.failed = Append(@, locations[loc_index])]
    /\ UNCHANGED <<mode, max_retries, attempt, locations, worldVars,
                   lat, lon, image_path, public_image_url, detections,
                   annotation_success, annotated_image_path,
                   public_annotated_image_url, llm_report, database_result,
                   main_result, steps, calls, run>>
    /\ UNCHANGED unitVars

\* The location goes to 'successful' or to 'failed'.
BatchMainReturned ==
    /\ mode = "batch" /\ wpc = "in_main" /\ Returned
    /\ log' = Append(log, MainEvent(main_result))
    /\ pc' = "Idle"
    /\ IF main_result = "raised" THEN
           wpc' = "done" /\ ret' = "raised" /\ results' = results
                         /\ loc_index' = loc_index
       ELSE
           /\ wpc' = "loop" /\ ret' = ret /\ loc_index' = loc_index + 1
           /\ results' =
                 IF main_result = "True"
                 THEN [results EXCEPT !.successful = Append(@, locations[loc_index])]
                 ELSE [results EXCEPT !.failed = Append(@, locations[loc_index])]
    /\ UNCHANGED <<mode, max_retries, attempt, locations, worldVars,
                   lat, lon, image_path, public_image_url, detections,
                   annotation_success, annotated_image_path,
                   public_annotated_image_url, llm_report, database_result,
                   main_result, steps, calls, run>>
    /\ UNCHANGED unitVars

\* return results
BatchReturn ==
    /\ mode = "batch" /\ wpc = "loop"
    /\ loc_index > Len(locations)
    /\ wpc' = "done"
    /\ ret' = "summary"
    /\ UNCHANGED <<mode, max_retries, attempt, locations, loc_index, results,
                   log, frameVars, worldVars>>
    /\ UNCHANGED unitVars

\* ------------------------------------------- analyze_image_combined on its own

FusionInit ==
    /\ AnnotateIdle
    /\ IouIdle
    /\ OrchestratorIdle
    /\ ReportIdle
    /\ FetchIdle
    /\ fpc = "detr"
    /\ has_dino \in BOOLEAN
    /\ combined_detections = << >>
    /\ final_detections = << >>
    /\ detr_outcome = "none"
    /\ dino_outcome = "none"
    /\ produced = << >>
    /\ scanned = 0

\* 1. Facebook DETR through the pipeline: the filtered results are added at
\* the end of the try block; an exception before that goes to the fallback.
DetrPipeline ==
    /\ fpc = "detr"
    /\ \E fails \in BOOLEAN, fb_results \in ListsUpTo(RawSamples, MaxPerDetector) :
          IF fails
          THEN /\ fpc' = "fallback"
               /\ UNCHANGED <<combined_detections, detr_outcome, produced>>
          ELSE /\ fpc' = "dino"
               /\ combined_detections' = combined_detections \o fb_filtered(fb_results)
               /\ detr_outcome' = "ok"
               /\ produced' = produced \o fb_filtered(fb_results)
    /\ UNCHANGED <<has_dino, final_detections, dino_outcome, scanned>>
    /\ UNCHANGED <<callerVars, frameVars, worldVars, reportVars, fetchVars, iouVars, annotateVars>>

\* The simplified DETR approach, tried after the pipeline failed.
DetrFallback ==
    /\ fpc = "fallback"
    /\ \E fails \in BOOLEAN, raw \in ListsUpTo(ThresholdedSamples, MaxPerDetector) :
          IF fails
          THEN /\ detr_outcome' = "failed"
               /\ UNCHANGED <<combined_detections, produced>>
          ELSE /\ combined_detections' = combined_detections \o AppendedByLoop(raw)
               /\ detr_outcome' = IF LoopRaises(raw) THEN "failed" ELSE "fallback_ok"
               /\ produced' = IF LoopRaises(raw) THEN produced
                              ELSE produced \o AppendedByLoop(raw)
    /\ fpc' = "dino"
    /\ UNCHANGED <<has_dino, final_detections, dino_outcome, scanned>>
    /\ UNCHANGED <<callerVars, frameVars, worldVars, reportVars, fetchVars, iouVars, annotateVars>>

\* 2. Grounding DINO, when its import succeeded.
GroundingDino ==
    /\ fpc = "dino"
    /\ IF ~has_dino
       THEN /\ dino_outcome' = "unavailable"
            /\ UNCHANGED <<combined_detections, produced>>
       ELSE \E fails \in BOOLEAN, raw \in ListsUpTo(ThresholdedSamples, MaxPerDetector) :
               IF fails
               THEN /\ dino_outcome' = "failed"
                    /\ UNCHANGED <<combined_detections, produced>>
               ELSE /\ combined_detections' = combined_detections \o AppendedByLoop(raw)
                    /\ dino_outcome' = IF LoopRaises(raw) THEN "failed" ELSE "ok"
                    /\ produced' = IF LoopRaises(raw) THEN produced
                                   ELSE produced \o AppendedByLoop(raw)
    /\ fpc' = "dedup"
    /\ UNCHANGED <<has_dino, final_detections, detr_outcome, scanned>>
    /\ UNCHANGED <<callerVars, frameVars, worldVars, reportVars, fetchVars, iouVars, annotateVars>>

\* 3. Remove duplicate detections and return final_detections.
RemoveDuplicates ==
    /\ fpc = "dedup"
    /\ final_detections' = remove_duplicates(combined_detections)
    /\ scanned' = Len(combined_detections)
    /\ fpc' = "returned"
    /\ UNCHANGED <<has_dino, combined_detections, detr_outcome, dino_outcome, produced>>
    /\ UNCHANGED <<callerVars, frameVars, worldVars, reportVars, fetchVars, iouVars, annotateVars>>

FusionNext ==
    \/ DetrPipeline
    \/ DetrFallback
    \/ GroundingDino
    \/ RemoveDuplicates

FusionSpec == FusionInit /\ [][FusionNext]_vars

\* ------------------------------------------ the duplicate scan, step by step

Trucks == <<"t", "r", "u", "c", "k", "s">>

\* More detections at the left truck's place: one labelled in the plural, one
\* with the left truck's score under a capitalised label, a bench, and a
\* truck twice as tall (the left truck is exactly half of their union).
TrucksLeft == Detection(Trucks, 80, Box(0, 0, 10, 10))
TruckLeftAgain == Detection(TruckCapital, 50, Box(0, 0, 10, 10))
BenchLeft == Detection(Bench, 40, Box(0, 0, 10, 10))
TruckTall == Detection(Truck, 40, Box(0, 0, 10, 20))

\* What the detectors can have put in combined_detections: detections above
\* the confidence threshold.
PoolSamples ==
    {TruckLeft, TruckRight, TruckMiddle, FireTruckLeft,
     TrucksLeft, TruckLeftAgain, BenchLeft, TruckTall}

\* The engine is at its step 3 with a pool of candidates.
DedupInit ==
    /\ AnnotateIdle
    /\ IouIdle
    /\ OrchestratorIdle
    /\ ReportIdle
    /\ FetchIdle
    /\ fpc = "dedup"
    /\ has_dino = TRUE
    /\ combined_detections \in ListsUpTo(PoolSamples, MaxPool)
    /\ final_detections = << >>
    /\ detr_outcome = "ok"
    /\ dino_outcome = "ok"
    /\ produced = combined_detections
    /\ scanned = 0

\* A round that replaces the duplicate whatever the scores.
ScanCandidate_AlwaysReplacing ==
    /\ fpc = "dedup"
    /\ scanned < Len(combined_detections)
    /\ LET det == combined_detections[scanned + 1]
           i == FirstDuplicate(final_detections, det)
       IN  final_detections' =
               IF i = 0 THEN Append(final_detections, det)
               ELSE [final_detections EXCEPT ![i] = det]
    /\ scanned' = scanned + 1
    /\ UNCHANGED <<fpc, has_dino, combined_detections, detr_outcome, dino_outcome, produced>>
    /\ UNCHANGED <<callerVars, frameVars, worldVars, reportVars, fetchVars, iouVars, annotateVars>>

\* One round of the loop over combined_detections (lines 208-230).
ScanCandidate ==
    /\ fpc = "dedup"
    /\ scanned < Len(combined_detections)
    /\ final_detections' = Scan(final_detections, combined_detections[scanned + 1])
    /\ scanned' = scanned + 1
    /\ UNCHANGED <<fpc, has_dino, combined_detections, detr_outcome, dino_outcome, produced>>
    /\ UNCHANGED <<callerVars, frameVars, worldVars, reportVars, fetchVars, iouVars, annotateVars>>

\* The loop has ended: return final_detections.
ReturnFinal ==
    /\ fpc = "dedup"
    /\ scanned = Len(combined_detections)
    /\ fpc' = "returned"
    /\ UNCHANGED <<has_dino, combined_detections, final_detections, detr_outcome,
                   dino_outcome, produced, scanned>>
    /\ UNCHANGED <<callerVars, frameVars, worldVars, reportVars, fetchVars, iouVars, annotateVars>>

DedupNext ==
    \/ ScanCandidate
    \/ ReturnFinal

DedupSpec == DedupInit /\ [][DedupNext]_vars

\* ---------------------------------------------------- generate_report on its own

ReportInit ==
    /\ AnnotateIdle
    /\ IouIdle
    /\ OrchestratorIdle
    /\ FusionIdle
    /\ FetchIdle
    /\ gpc = "start"
    /\ gen_detections \in ListsUpTo({TruckLeft, TruckRight, FaintBench}, MaxDetections)
    /\ response = NoResponse
    /\ gen_result = NoReport
    /\ stage = 0
    /\ report = NoReport
    /\ model_calls = 0

\* The start without the early return for an empty list.
GenStart_AlwaysInvoking ==
    /\ gpc = "start"
    /\ gpc' = "invoke"
    /\ UNCHANGED <<gen_detections, response, gen_result, stage, report, model_calls>>
    /\ UNCHANGED <<callerVars, frameVars, worldVars, fusionVars, fetchVars, iouVars, annotateVars>>

\* if not detections: return the fixed report; otherwise format the
\* detections for the prompt.
GenStart ==
    /\ gpc = "start"
    /\ IF gen_detections = << >>
       THEN /\ report' = Report("no_objects", IssuesList(<< >>))
            /\ gpc' = "returned"
       ELSE /\ report' = report
            /\ gpc' = "invoke"
    /\ UNCHANGED <<gen_detections, response, gen_result, stage, model_calls>>
    /\ UNCHANGED <<callerVars, frameVars, worldVars, fusionVars, fetchVars, iouVars, annotateVars>>

\* response = analysis_chain.invoke(...): the model answers or the call raises.
GenInvoke ==
    /\ gpc = "invoke"
    /\ \E resp \in LLMResponses :
          /\ response' = resp
          /\ gpc' = IF resp.raises THEN "except" ELSE "extract"
    /\ model_calls' = model_calls + 1
    /\ UNCHANGED <<gen_detections, gen_result, stage, report>>
    /\ UNCHANGED <<callerVars, frameVars, worldVars, fusionVars, fetchVars, iouVars, annotateVars>>

\* result = extract_report_dict(report_text)
GenExtract ==
    /\ gpc = "extract"
    /\ gen_result' = extract_report_dict(response)
    /\ stage' = extraction_stage(response)
    /\ gpc' = "repair"
    /\ UNCHANGED <<gen_detections, response, report, model_calls>>
    /\ UNCHANGED <<callerVars, frameVars, worldVars, fusionVars, fetchVars, iouVars, annotateVars>>

\* if result['issues'] and 'no' in result['summary'].lower(): replace the
\* summary; return gen_result. .lower() of a summary that is no string and len()
\* of a number raise, into the except clause.
GenRepair ==
    /\ gpc = "repair"
    /\ IF ~Truthy(gen_result.issues) THEN
           report' = gen_result /\ gpc' = "returned"
       ELSE IF gen_result.summary = "not_text" THEN
           report' = report /\ gpc' = "except"
       ELSE IF ~ContainsNo(gen_result.summary) THEN
           report' = gen_result /\ gpc' = "returned"
       ELSE IF gen_result.issues.t = "number" THEN
           report' = report /\ gpc' = "except"
       ELSE
           /\ report' = [gen_result EXCEPT !.summary = FoundSummary(Len(gen_result.issues.items))]
           /\ gpc' = "returned"
    /\ UNCHANGED <<gen_detections, response, gen_result, stage, model_calls>>
    /\ UNCHANGED <<callerVars, frameVars, worldVars, fusionVars, fetchVars, iouVars, annotateVars>>

\* The except clause re-raising instead of returning the error report.
GenExcept_Reraising ==
    /\ gpc = "except"
    /\ gpc' = "raised"
    /\ UNCHANGED <<gen_detections, response, gen_result, stage, report, model_calls>>
    /\ UNCHANGED <<callerVars, frameVars, worldVars, fusionVars, fetchVars, iouVars, annotateVars>>

\* The except clause invoking the model a second time before giving up.
GenExcept_Retrying ==
    /\ gpc = "except"
    /\ IF model_calls < 2
       THEN report' = report /\ gpc' = "invoke"
       ELSE report' = Report("llm_error", IssuesList(<< >>)) /\ gpc' = "returned"
    /\ UNCHANGED <<gen_detections, response, gen_result, stage, model_calls>>
    /\ UNCHANGED <<callerVars, frameVars, worldVars, fusionVars, fetchVars, iouVars, annotateVars>>

\* except Exception: return the error report.
GenExcept ==
    /\ gpc = "except"
    /\ report' = Report("llm_error", IssuesList(<< >>))
    /\ gpc' = "returned"
    /\ UNCHANGED <<gen_detections, response, gen_result, stage, model_calls>>
    /\ UNCHANGED <<callerVars, frameVars, worldVars, fusionVars, fetchVars, iouVars, annotateVars>>

ReportNext ==
    \/ GenStart
    \/ GenInvoke
    \/ GenExtract
    \/ GenRepair
    \/ GenExcept

ReportSpec == ReportInit /\ [][ReportNext]_vars

\* ----------------------------------------------- fetch_multiple_angles on its own

FetchInit ==
    /\ AnnotateIdle
    /\ IouIdle
    /\ OrchestratorIdle
    /\ FusionIdle
    /\ ReportIdle
    /\ fetch_pc = "loop"
    /\ \E c \in TestCoordinates : fetch_latitude = c[1] /\ fetch_longitude = c[2]
    /\ angles \in {SubSeq(DefaultAngles, 1, n) : n \in 0..MaxAngles}
    /\ angle_index = 1
    /\ saved_images = << >>
    /\ angle_files = [p \in AnglePaths |-> Absent]
    /\ http_gets = << >>
    /\ last_fetch = NoFetch

\* for angle in angles: result = fetch_street_view_image(latitude, longitude,
\* save_path, heading); a path returned is kept.
FetchAngle ==
    /\ fetch_pc = "loop"
    /\ angle_index <= Len(angles)
    /\ \E env \in FetchEnvironments :
          LET got == fetch_street_view_image(fetch_latitude, fetch_longitude,
                         angle_files, AnglePath(angles[angle_index]), env, angle_index)
          IN  /\ angle_files' = got.files
              /\ http_gets' = IF got.gets = 0 THEN http_gets
                              ELSE Append(http_gets, got.location)
              /\ saved_images' = IF got.path = "None" THEN saved_images
                                  ELSE Append(saved_images, got.path)
              /\ last_fetch' = [path |-> got.path, gets |-> got.gets,
                                location |-> got.location,
                                save_path |-> AnglePath(angles[angle_index]),
                                env |-> env]
    /\ angle_index' = angle_index + 1
    /\ UNCHANGED <<fetch_pc, fetch_latitude, fetch_longitude, angles>>
    /\ UNCHANGED <<callerVars, frameVars, worldVars, fusionVars, reportVars, iouVars, annotateVars>>

\* return saved_images
FetchReturn ==
    /\ fetch_pc = "loop"
    /\ angle_index > Len(angles)
    /\ fetch_pc' = "returned"
    /\ UNCHANGED <<fetch_latitude, fetch_longitude, angles, angle_index,
                   saved_images, angle_files, http_gets, last_fetch>>
    /\ UNCHANGED <<callerVars, frameVars, worldVars, fusionVars, reportVars, iouVars, annotateVars>>

FetchNext ==
    \/ FetchAngle
    \/ FetchReturn

FetchSpec == FetchInit /\ [][FetchNext]_vars

\* ------------------------------------------------------------ iou on its own

\* The boxes with corners on the pixel grid up to MaxCoordinate, those without
\* width or height included (int() of two close floats gives such a box).
GridBoxes ==
    {Box(xmin, ymin, xmax, ymax) :
        xmin \in 0..MaxCoordinate, ymin \in 0..MaxCoordinate,
        xmax \in 0..MaxCoordinate, ymax \in 0..MaxCoordinate}

PixelBoxes == {b \in GridBoxes : b.xmin <= b.xmax /\ b.ymin <= b.ymax}

IouInit ==
    /\ AnnotateIdle
    /\ OrchestratorIdle
    /\ FusionIdle
    /\ ReportIdle
    /\ FetchIdle
    /\ ipc = "start"
    /\ first_box \in PixelBoxes
    /\ second_box \in PixelBoxes
    /\ iou_value = Ratio(0, 1)

\* iou(box1, box2) is called and returns.
IouCall ==
    /\ ipc = "start"
    /\ iou_value' = iou(first_box, second_box)
    /\ ipc' = "returned"
    /\ UNCHANGED <<first_box, second_box>>
    /\ UNCHANGED <<callerVars, frameVars, worldVars, fusionVars, reportVars, fetchVars, annotateVars>>

IouNext == IouCall

IouSpec == IouInit /\ [][IouNext]_vars

\* ------------------------------------------------ draw_bounding_boxes on its own

\* Columns left of, inside and right of the image; rows across the image,
\* across its lower edge only, and a pair without height.
ColumnSamples == {-1, 1, ImageWidth + 1}
RowPairs == {<<-1, ImageHeight + 1>>, <<1, ImageHeight + 1>>, <<1, 1>>}

\* Boxes as the detectors give them, xmin <= xmax and ymin <= ymax: inside the
\* image, across its edges, outside it, and without width or height.
DrawnBoxSamples ==
    {Box(xmin, rows[1], xmax, rows[2]) :
        xmin \in ColumnSamples, xmax \in ColumnSamples, rows \in RowPairs}

AnnotatedSamples ==
    {Detection(Truck, 50, b) : b \in {c \in DrawnBoxSamples : c.xmin <= c.xmax}}

AnnotateInit ==
    /\ OrchestratorIdle
    /\ FusionIdle
    /\ ReportIdle
    /\ FetchIdle
    /\ IouIdle
    /\ apc = "open"
    /\ ann_detections \in ListsUpTo(AnnotatedSamples, MaxAnnotated)
    /\ ann_index = 1
    /\ rectangles = << >>
    /\ draw_failures = << >>
    /\ ann_result = "none"

\* Image.open, ImageDraw.Draw and the font: a failure goes to the outer
\* except clause, which returns False.
OpenImage ==
    /\ apc = "open"
    /\ \E opens \in BOOLEAN :
          IF opens
          THEN apc' = "loop" /\ ann_result' = ann_result
          ELSE apc' = "returned" /\ ann_result' = "False"
    /\ UNCHANGED <<ann_detections, ann_index, rectangles, draw_failures>>
    /\ UNCHANGED <<callerVars, frameVars, worldVars, fusionVars, reportVars, fetchVars, iouVars>>

\* The corners with the lower clamp only.
clamped_AtOriginOnly(box, width, height) ==
    Box(Max(0, box.xmin), Max(0, box.ymin), box.xmax, box.ymax)

\* Lines 281-284: the corners clamped to the image.
clamped(box, width, height) ==
    Box(Max(0, box.xmin), Max(0, box.ymin), Min(width, box.xmax), Min(height, box.ymax))

\* One round of the loop over the detections. Reading the detection can
\* raise before anything is drawn ("before"), and drawing the label can raise
\* after the rectangle is drawn ("after"); the inner except clause goes on to
\* the next detection either way.
DrawDetection ==
    /\ apc = "loop"
    /\ ann_index <= Len(ann_detections)
    /\ \E failure \in {"none", "before", "after"} :
          LET detection == ann_detections[ann_index]
              c == clamped(detection.box, ImageWidth, ImageHeight)
          IN  /\ rectangles' =
                     IF failure = "before" THEN rectangles
                     ELSE IF c.xmin >= c.xmax \/ c.ymin >= c.ymax THEN rectangles
                     ELSE Append(rectangles, [i |-> ann_index, box |-> c])
              /\ draw_failures' = Append(draw_failures, failure)
    /\ ann_index' = ann_index + 1
    /\ UNCHANGED <<apc, ann_detections, ann_result>>
    /\ UNCHANGED <<callerVars, frameVars, worldVars, fusionVars, reportVars, fetchVars, iouVars>>

\* image.save(output_path) and return True; False when saving raises.
SaveAnnotated ==
    /\ apc = "loop"
    /\ ann_index > Len(ann_detections)
    /\ \E saves \in BOOLEAN : ann_result' = IF saves THEN "True" ELSE "False"
    /\ apc' = "returned"
    /\ UNCHANGED <<ann_detections, ann_index, rectangles, draw_failures>>
    /\ UNCHANGED <<callerVars, frameVars, worldVars, fusionVars, reportVars, fetchVars, iouVars>>

AnnotateNext ==
    \/ OpenImage
    \/ DrawDetection
    \/ SaveAnnotated

AnnotateSpec == AnnotateInit /\ [][AnnotateNext]_vars

\* ------------------------------------------------------------- specification

Next ==
    \/ Validating
    \/ FetchingImage
    \/ UploadingOriginal
    \/ Detecting
    \/ Annotating
    \/ UploadingAnnotated
    \/ GeneratingReport
    \/ Persisting
    \/ CleaningUp
    \/ HandleException
    \/ RetryCallMain
    \/ RetryMainReturned
    \/ RetrySleep
    \/ BatchCallMain
    \/ BatchMainReturned
    \/ BatchReturn

Spec == Init /\ [][Next]_vars

\* Every call made returns and the interpreter keeps running: a step that can
\* be taken is taken.
FairSpec == Spec /\ WF_vars(Next)

\* ------------------------------------------------------------------ claims

\* This run of main has entered the step.
Entered(step) == \E i \in DOMAIN steps : steps[i] = step

\* main has returned from its current run (the frame is kept until the next).
MainReturned == main_result # "none"

\* The rows this run of main has inserted.
RowsOfRun == {i \in DOMAIN scans : scans[i].by = run}

\* The pauses and the runs of main in the log.
Sleeps == {i \in DOMAIN log : log[i].ev = "sleep"}
Attempts == {i \in DOMAIN log : log[i].ev = "main"}

\* C1: in every run of main the insert is called at most once, and only after
\* fetch, the original upload, detection, the annotation step and report
\* generation have finished; main returns True exactly when the insert
\* returned a row; a run that returns False has created no scan row.
C1_InsertOnceAtEnd ==
    /\ calls["insert"] <= 1
    /\ Cardinality(RowsOfRun) <= 1
    /\ calls["insert"] = 1 =>
          /\ calls["fetch"] = 1 /\ image_path = ScanPath
          /\ calls["upload"] >= 1 /\ public_image_url # 0
          /\ calls["detect"] = 1
          /\ calls["annotate"] = 1
          /\ calls["generate_report"] = 1 /\ llm_report # NoReport
          /\ public_annotated_image_url # 0
          /\ pc \notin {"Validating", "FetchingImage", "UploadingOriginal",
                        "Detecting", "Annotating", "UploadingAnnotated",
                        "GeneratingReport"}
    /\ MainReturned =>
          /\ main_result \in {"True", "False"}
          /\ main_result = "True" <=> database_result # 0
          /\ main_result = "True" <=> RowsOfRun # {}
          /\ main_result = "False" => RowsOfRun = {}

\* C1 witness: a second run whose insert returned a row, after a first run
\* whose insert returned null.
C1_Witness ==
    /\ run = 2 /\ main_result = "True" /\ database_result # 0
    /\ Len(scans) = 1
    /\ mode = "retry" /\ storage # << >> /\ storage[1].by = 1

\* C2: when the original upload returns null, main returns False without
\* detection, annotation, report generation or insert, and no row is created;
\* every row carries the non-null URL the original upload of its run returned.
C2_NoScanWithoutOriginalUrl ==
    /\ (calls["upload"] >= 1 /\ public_image_url = 0) =>
          /\ main_result = "False"
          /\ calls["detect"] = 0 /\ calls["annotate"] = 0
          /\ calls["generate_report"] = 0 /\ calls["insert"] = 0
          /\ ~Entered("Detecting") /\ ~Entered("Persisting")
          /\ RowsOfRun = {}
    /\ \A i \in DOMAIN scans :
          /\ scans[i].image_url # 0
          /\ scans[i].image_url \in DOMAIN storage
          /\ storage[scans[i].image_url].path = ScanPath
          /\ storage[scans[i].image_url].by = scans[i].by

\* C2 witness: the original upload returned null and main has returned.
C2_Witness ==
    /\ calls["upload"] = 1 /\ public_image_url = 0
    /\ image_path = ScanPath /\ files[ScanPath].exists
    /\ main_result = "False"

\* C3: once the fetcher has been called, both scratch files are gone when main
\* returns, on success and on every failure, and main's result is a boolean.
C3_CleanupOnEveryPath ==
    (MainReturned /\ calls["fetch"] >= 1) =>
        /\ ~files[ScanPath].exists
        /\ ~files[AnnotatedPath].exists
        /\ main_result \in {"True", "False"}

\* C4: the report step never fails a run: whatever the model answers, a run
\* that entered GeneratingReport goes on to Persisting and attempts the insert.
C4_ReportNeverFails ==
    /\ pc # "Except"
    /\ (Entered("GeneratingReport") /\ pc # "GeneratingReport") =>
          Entered("Persisting")
    /\ (Entered("GeneratingReport") /\ MainReturned) => calls["insert"] = 1

\* C5: no exception leaves main: main returns True or False, so
\* scan_with_retry and scan_multiple_locations return normally.
C5_NoExceptionEscapes ==
    /\ main_result \in {"none", "True", "False"}
    /\ pc \in {"Done", "Failed"} => main_result \in {"True", "False"}
    /\ ret \in {"none", "True", "False", "summary"}
    /\ wpc = "done" =>
          IF mode = "retry" THEN ret \in {"True", "False"} ELSE ret = "summary"

\* C5 witness: an exception was raised in main's try block, the cleanup of the
\* except clause failed too, and main returned False.
C5_Witness ==
    /\ PrintingReportRaises(llm_report)
    /\ public_image_url # 0
    /\ files[ScanPath].exists
    /\ main_result = "False"
    /\ wpc = "done"

\* What scan_with_retry has done so far, read from the log: main ran at most
\* max_retries + 1 times, nothing follows a True, every pause is 2 seconds
\* long and stands between a False and the next run of main, and the value
\* returned is True exactly when a run returned True.
RetryLogInOrder ==
    /\ Cardinality(Attempts) <= max_retries + 1
    /\ run <= max_retries + 1
    /\ max_retries = DefaultMaxRetries => run <= 3
    /\ \A i \in DOMAIN log :
          /\ log[i].ev = "main" /\ log[i].result = "True" => i = Len(log)
          /\ log[i].ev = "sleep" =>
                /\ log[i].seconds = 2
                /\ i > 1 /\ log[i - 1].ev = "main" /\ log[i - 1].result = "False"
                /\ i < Len(log) => log[i + 1].ev = "main"
                /\ i = Len(log) => wpc \in {"sleep", "loop", "in_main"}
          /\ (log[i].ev = "main" /\ i > 1) => log[i - 1].ev = "sleep"
    /\ wpc = "done" =>
          /\ log # << >> /\ log[Len(log)].ev = "main"
          /\ ret = "True" <=> \E i \in Attempts : log[i].result = "True"
          /\ ret = "False" <=> \A i \in Attempts : log[i].result = "False"
          /\ ret \in {"True", "False"}
          /\ ret = "False" => Cardinality(Attempts) = max_retries + 1

\* C6: scan_with_retry with max_retries >= 0 terminates, runs main at most
\* max_retries + 1 times (3 by default), stops at the first True, returns True
\* exactly when an attempt returned True, and pauses 2 seconds only between a
\* failed attempt and the next one.
C6_RetryTerminatesInOrder ==
    /\ [](mode = "retry" => RetryLogInOrder)
    /\ (mode = "retry") ~> (wpc = "done")

\* C6 witness: with the default of 2 retries, two failed attempts, each
\* followed by a pause, and a third attempt that succeeds.
C6_Witness ==
    /\ mode = "retry" /\ max_retries = DefaultMaxRetries
    /\ wpc = "done" /\ ret = "True"
    /\ Len(log) = 5 /\ Cardinality(Sleeps) = 2

\* C7: with coordinates that validation rejects, scan_with_retry makes exactly
\* one attempt, does not pause, and returns False.
C7_InvalidInputNotRetried ==
    (mode = "retry" /\ ~validate_coordinates(lat, lon)) =>
        /\ run <= 1
        /\ Sleeps = {}
        /\ wpc # "sleep"
        /\ wpc = "done" => (ret = "False" /\ run = 1)

\* C8: attempts are independent: each run of main starts at Validating with a
\* new frame and fetches and uploads again, and a stored scan holds only URLs,
\* detections and a report made in the run that stored it; nothing left by an
\* earlier run is uploaded or referenced.
C8_AttemptsIndependent ==
    /\ steps # << >> => steps[1] = "Validating"
    /\ pc = "Validating" => (FreshFrame /\ steps = <<"Validating">>)
    /\ \A i \in DOMAIN storage : storage[i].run = storage[i].by
    /\ \A i \in DOMAIN scans :
          LET row == scans[i]
          IN  /\ row.image_url \in DOMAIN storage
              /\ row.annotated_image_url \in DOMAIN storage
              /\ storage[row.image_url].by = row.by
              /\ storage[row.image_url].run = row.by
              /\ storage[row.annotated_image_url].by = row.by
              /\ storage[row.annotated_image_url].run = row.by
              /\ \A d \in DOMAIN row.detection_results :
                    row.detection_results[d].run = row.by
              /\ row.llm_report_structured # NoReport
    /\ calls["insert"] = 1 => (calls["fetch"] = 1 /\ calls["upload"] >= 1)

\* C8 witness: the third attempt stored a scan although the first attempt
\* left its scratch files and an uploaded image, and the second its annotated
\* upload.
C8_Witness ==
    /\ mode = "retry" /\ run = 3 /\ RowsOfRun # {}
    /\ \E i \in DOMAIN storage : storage[i].by = 1
    /\ \E i \in DOMAIN storage : storage[i].by = 2 /\ storage[i].path = AnnotatedPath
    /\ log[1].result = "False"
    /\ detections # << >>

\* The coordinates lie in the closed ranges, stated on the fixed-point values.
InClosedRanges(latitude, longitude) ==
    /\ latitude.kind = "num" /\ longitude.kind = "num"
    /\ latitude.val \in (0 - 90 * Scale)..(90 * Scale)
    /\ longitude.val \in (0 - 180 * Scale)..(180 * Scale)

\* C9: validation accepts exactly latitude in [-90, 90] and longitude in
\* [-180, 180], limits included; (91, 0) and (0, 181) are rejected and
\* (40.7128, -74.0060) is accepted; a rejected run returns False without a
\* fetch, an upload, a model call or an insert.
C9_ValidationGuardsCollaborators ==
    /\ [](/\ ~validate_coordinates(Num(91 * Scale), Num(0))
          /\ ~validate_coordinates(Num(0), Num(181 * Scale))
          /\ validate_coordinates(Num(407128), Num(-740060))
          /\ (run >= 1 /\ pc # "Validating") =>
                (Entered("FetchingImage") <=> InClosedRanges(lat, lon))
          /\ (run >= 1 /\ ~InClosedRanges(lat, lon)) =>
                /\ calls = NoCalls
                /\ steps = <<"Validating">>
                /\ pc \in {"Validating", "Failed", "Idle"}
                /\ MainReturned => main_result = "False")
    /\ [][(pc = "Validating" /\ ~InClosedRanges(lat, lon)) =>
             /\ pc' = "Failed" /\ main_result' = "False"
             /\ calls' = NoCalls
             /\ UNCHANGED <<files, storage, scans>>]_vars

\* C9 witness: a latitude one unit above the limit was rejected and main
\* returned False.
C9_Witness ==
    /\ lat = Num(LatLimit * Scale + 1)
    /\ main_result = "False"
    /\ calls = NoCalls

\* The objects this run uploaded from the annotated scratch file.
AnnotatedUploadsOfRun ==
    {i \in DOMAIN storage : storage[i].by = run /\ storage[i].path = AnnotatedPath}

\* C10: a failed annotation and a failed annotated upload are not fatal and
\* the annotated URL is never null: without an annotation no second upload is
\* made and the URL is the original's; with an annotation whose upload returns
\* null it is the original's; with both it is the URL of the annotated upload;
\* in all three cases the run reaches Persisting and, when the insert
\* succeeds, Done.
C10_AnnotationNotFatal ==
    /\ (Entered("GeneratingReport") /\ ~annotation_success) =>
          /\ calls["upload"] = 1
          /\ public_annotated_image_url = public_image_url
    /\ (Entered("GeneratingReport") /\ annotation_success) =>
          /\ calls["upload"] = 2
          /\ IF AnnotatedUploadsOfRun = {}
             THEN public_annotated_image_url = public_image_url
             ELSE public_annotated_image_url \in AnnotatedUploadsOfRun
    /\ \A i \in DOMAIN scans : scans[i].annotated_image_url # 0
    /\ (Entered("Annotating") /\ MainReturned) =>
          /\ Entered("Persisting")
          /\ database_result # 0 => main_result = "True"

\* The locations whose run of main, in the order of the log, had this result.
RECURSIVE LocationsWithResult(_, _)
LocationsWithResult(result, n) ==
    IF n = 0 THEN << >>
    ELSE IF log[n].result = result
         THEN Append(LocationsWithResult(result, n - 1), locations[n])
         ELSE LocationsWithResult(result, n - 1)

\* C11: scan_multiple_locations runs main once per location, in list order
\* (the k-th run has the k-th location's coordinates); a failed location does
\* not stop the loop; each position of the list is in 'successful' when its own
\* run returned True and in 'failed' otherwise; and the summary returned has
\* total = number of locations = |successful| + |failed|.
C11_BatchRunsEachLocationOnce ==
    mode = "batch" =>
        /\ Len(log) = loc_index - 1
        /\ \A i \in DOMAIN log : log[i].ev = "main"
        /\ run = Len(log) + (IF wpc = "in_main" THEN 1 ELSE 0)
        /\ wpc = "in_main" =>
              /\ loc_index <= Len(locations)
              /\ lat = locations[loc_index][1]
              /\ lon = locations[loc_index][2]
        /\ results.successful = LocationsWithResult("True", Len(log))
        /\ results.failed = LocationsWithResult("False", Len(log))
        /\ results.total = Len(locations)
        /\ wpc = "done" =>
              /\ ret = "summary"
              /\ Len(log) = Len(locations)
              /\ results.total = Len(results.successful) + Len(results.failed)

\* A batch that went on after a failed location and finished.
C11_Witness ==
    /\ mode = "batch" /\ wpc = "done" /\ ret = "summary"
    /\ Len(locations) = 2
    /\ log[1].result = "False" /\ log[2].result = "True"
    /\ Len(results.failed) = 1 /\ Len(results.successful) = 1

\* The fusion engine has returned its list.
FusionReturned == fpc = "returned"

\* C12: analyze_image_combined never raises, and a detector that fails (for
\* Detector A: the pipeline and the fallback both) or is unavailable
\* contributes no detection: the list returned is the deduplication of what
\* the detectors that did not fail produced, and is empty when both failed.
C12_FailedDetectorContributesNothing ==
    /\ fpc # "raised"
    /\ FusionReturned =>
          /\ final_detections = remove_duplicates(produced)
          /\ (detr_outcome = "failed" /\ dino_outcome \in {"failed", "unavailable"})
                => final_detections = << >>

\* C16: deduplicating the list the engine returned gives the same list, and no
\* two detections of that list are the same object (similar labels and an IoU
\* above 0.5).
C16_DedupIdempotent ==
    FusionReturned =>
        /\ remove_duplicates(final_detections) = final_detections
        /\ \A i, j \in DOMAIN final_detections :
              i # j => ~same_object(final_detections[i], final_detections[j])

\* generate_report has returned to its caller.
GenReturned == gpc = "returned"

\* extract_report_dict has run on the model's answer.
Extracted == stage # 0

\* C13: generate_report never raises to its caller and what it returns has
\* both a summary key and an issues key; when the model invocation failed,
\* the issues returned are the empty list.
C13_GenerateReportNeverFails ==
    /\ gpc # "raised"
    /\ GenReturned =>
          /\ ReportKeys \subseteq report.keys
          /\ response.raises => report.issues = IssuesList(<< >>)

\* The invocation raised and the error report came back.
C13_Witness ==
    /\ GenReturned /\ response.raises /\ model_calls = 1
    /\ report = Report("llm_error", IssuesList(<< >>))

\* C14: for an empty detection list generate_report returns the fixed "No
\* objects detected ..." report with no issues and never invokes the model.
C14_EmptyDetectionsSkipModel ==
    gen_detections = << >> /\ gpc # "start" =>
        /\ GenReturned
        /\ report = Report("no_objects", IssuesList(<< >>))
        /\ model_calls = 0

\* The fixed report came back for an empty list.
C14_Witness == GenReturned /\ gen_detections = << >> /\ report.summary = "no_objects"

\* The summary contains "no" in some case.
SaysNo(summary) == summary \in {"with_no", "with_No", "no_objects", "could_not_parse"}

\* C15: a report returned with non-empty issues has no "no" (in any case) in
\* its summary; when the extracted report has a non-empty issues list and a
\* summary with "no", the summary returned is the generated sentence with the
\* number of issues, and the issues are the extracted ones.
C15_RepairedSummary ==
    GenReturned =>
        /\ Truthy(report.issues) => ~SaysNo(report.summary)
        /\ ( /\ Extracted
             /\ gen_result.issues.t = "list" /\ gen_result.issues.items # << >>
             /\ SaysNo(gen_result.summary) )
           => /\ report.summary = FoundSummary(Len(gen_result.issues.items))
              /\ report.issues = gen_result.issues

\* A summary "No issues found." with one issue came back repaired.
C15_Witness ==
    /\ GenReturned
    /\ gen_result.summary = "with_No" /\ gen_result.issues = IssuesList(<<AnIssue>>)
    /\ report.summary = "found_1"

\* C17: when the text is a JSON object with both keys, the direct parse
\* returns that object as it is (all its keys and values) and no later stage
\* runs.
C17_DirectParseRoundTrip ==
    (Extracted /\ response.shape = "json" /\ ReportKeys \subseteq response.keys) =>
        /\ stage = 1
        /\ gen_result = response.obj

\* An object with a third key and an issue object came back whole.
C17_Witness ==
    /\ Extracted /\ stage = 1
    /\ "confidence" \in gen_result.keys
    /\ gen_result.issues = IssuesList(<<AnIssue>>)

\* C18: when the text holds a JSON report object between prose, the report
\* extracted equals that object, its issues included.
C18_WrappedObjectRecovered ==
    (Extracted /\ response.shape = "prose_json" /\ ReportKeys \subseteq response.keys) =>
        gen_result = response.obj

\* C19: extraction always returns a dict with both keys; when no stage
\* recovers a full object, it returns the summary of a "summary": "..." pair
\* with empty issues if the text has one, and the fixed "Could not parse ..."
\* report otherwise.
C19_ExtractionTotal ==
    Extracted =>
        /\ gpc # "raised"
        /\ ReportKeys \subseteq gen_result.keys
        /\ stage \in 1..5
        /\ stage \notin {1, 2, 3} =>
              IF HasSummaryPair(response)
              THEN stage = 4 /\ gen_result = Report(response.obj.summary, IssuesList(<< >>))
              ELSE stage = 5 /\ gen_result = Report("could_not_parse", IssuesList(<< >>))

\* A text with only a summary pair gave that summary and no issues.
C19_Witness ==
    /\ Extracted /\ response.shape = "fragment" /\ stage = 4
    /\ gen_result = Report("with_no", IssuesList(<< >>))

\* C20: the fetcher itself rejects coordinates outside [-90, 90] x [-180, 180]:
\* called with such coordinates it returns no path, issues no HTTP request and
\* creates no file.
C20_FetcherValidatesCoordinates ==
    ~InClosedRanges(fetch_latitude, fetch_longitude) =>
        /\ http_gets = << >>
        /\ saved_images = << >>
        /\ \A p \in AnglePaths : ~angle_files[p].exists

\* The fetcher has been called: last_fetch is what its last call returned.
Fetched == fetch_pc # "idle" /\ angle_index > 1

\* The last call got a response: the key was set and the request went through.
Responded == last_fetch.env.api_key /\ last_fetch.env.transport = "ok"

\* C21: a call of the fetcher issues at most one GET and returns a path (its
\* save_path) exactly when the response has status 200 and an image content
\* type and the file this call wrote has a size above zero; otherwise it
\* returns None; it never raises.
C21_FetchOneGetAndPathIffImage ==
    Fetched =>
        /\ last_fetch.gets <= 1
        /\ Len(http_gets) <= angle_index - 1
        /\ last_fetch.path \in {"None", last_fetch.save_path}
        /\ last_fetch.path # "None" <=>
              /\ Responded
              /\ last_fetch.env.status = 200
              /\ last_fetch.env.image
              /\ angle_files[last_fetch.save_path].exists
              /\ angle_files[last_fetch.save_path].run = angle_index - 1
              /\ angle_files[last_fetch.save_path].size > 0

\* A call that got an empty image body wrote a zero-byte file and returned None.
C21_Witness ==
    /\ Fetched /\ Responded
    /\ last_fetch.env.status = 200 /\ last_fetch.env.image
    /\ angle_files[last_fetch.save_path].exists
    /\ angle_files[last_fetch.save_path].size = 0
    /\ last_fetch.path = "None" /\ last_fetch.gets = 1

\* The steps of main in the order of its code, and a step's place in it.
StepOrder ==
    <<"Validating", "FetchingImage", "UploadingOriginal", "Detecting", "Annotating",
      "UploadingAnnotated", "GeneratingReport", "Persisting", "CleaningUp">>

StepPlace(step) == CHOOSE k \in DOMAIN StepOrder : StepOrder[k] = step

\* The steps entered so far are in order, with no step twice and only the
\* annotated upload left out.
StepsWellOrdered ==
    /\ \A i \in DOMAIN steps : \E k \in DOMAIN StepOrder : StepOrder[k] = steps[i]
    /\ steps # << >> => steps[1] = "Validating"
    /\ \A i \in 1..(Len(steps) - 1) :
          \/ StepPlace(steps[i + 1]) = StepPlace(steps[i]) + 1
          \/ /\ steps[i] = "Annotating" /\ steps[i + 1] = "GeneratingReport"
             /\ ~annotation_success
    /\ Entered("UploadingAnnotated") => annotation_success
    /\ pc \notin {"Idle", "Done", "Failed", "Except"} => pc = steps[Len(steps)]
    /\ pc = "Done" =>
          /\ steps[Len(steps)] = "CleaningUp"
          /\ Entered("Persisting") /\ database_result # 0

\* A run that has returned takes no further step: its frame is only handed
\* back to the caller.
TerminalStaysPut ==
    pc \in {"Done", "Failed"} =>
        (pc' \in {pc, "Idle"} /\ steps' = steps /\ run' = run /\ main_result' = main_result)

\* C22: the steps a run of main enters are in the order Validating,
\* FetchingImage, UploadingOriginal, Detecting, Annotating, UploadingAnnotated,
\* GeneratingReport, Persisting, CleaningUp, each at most once and none left
\* out except UploadingAnnotated, which is left out exactly when annotation
\* failed; Done is reached only after CleaningUp following an insert that
\* returned a row; and after Failed (or Done) the run takes no further step.
C22_StepsInOrder == []StepsWellOrdered /\ [][TerminalStaysPut]_vars

\* A run that skipped the annotated upload and reached Done.
C22_Witness ==
    /\ pc = "Done" /\ ~annotation_success
    /\ steps = <<"Validating", "FetchingImage", "UploadingOriginal", "Detecting",
                 "Annotating", "GeneratingReport", "Persisting", "CleaningUp">>

\* The words of a label, in lower case.
WholeTokens(label) == {split(lower(label))[k] : k \in DOMAIN split(lower(label))}

\* The same object, as specified: labels equal ignoring case or with a whole
\* word in common, and an IoU above 0.5.
SameObjectAsSpecified(d, e) ==
    /\ \/ lower(d.label) = lower(e.label)
       \/ WholeTokens(d.label) \cap WholeTokens(e.label) # {}
    /\ Greater(iou(d.box, e.box), IouThreshold)

\* The scan is about to compare a candidate with the kept detections.
Scanning == fpc = "dedup" /\ scanned < Len(combined_detections)

\* A round of the scan, as specified.
ScanRoundAsSpecified ==
    (Scanning /\ scanned' = scanned + 1) =>
        LET d == combined_detections[scanned + 1]
            same == {i \in DOMAIN final_detections :
                        SameObjectAsSpecified(d, final_detections[i])}
        IN  IF same = {}
            THEN final_detections' = Append(final_detections, d)
            ELSE LET e == CHOOSE i \in same : \A j \in same : i <= j
                 IN  final_detections' =
                         [final_detections EXCEPT
                             ![e] = IF d.score > @.score THEN d ELSE @]

\* C23: the duplicate scan takes the candidates in order; a candidate that is
\* the same object as a kept detection is not appended, and the first such
\* kept detection gives its place to the candidate when the candidate's score
\* is higher (it stays on equal scores), the other kept detections and their
\* order being unchanged; a candidate that is the same object as no kept
\* detection is appended at the end.
C23_DedupSingleScan == [][ScanRoundAsSpecified]_vars

\* C24: the scan treats a candidate and a kept detection as the same object
\* exactly when their labels are equal ignoring case or have a whole word in
\* common, and their IoU is above 0.5.
C24_SameObjectTest ==
    Scanning =>
        \A i \in DOMAIN final_detections :
            same_object(combined_detections[scanned + 1], final_detections[i])
                <=> SameObjectAsSpecified(combined_detections[scanned + 1],
                                          final_detections[i])

Scores(list) == {list[i].score : i \in DOMAIN list}
MaxScore(list) == CHOOSE m \in Scores(list) : \A n \in Scores(list) : n <= m

\* C29: for a pool that is not empty, every detection returned is one of the
\* pool, the list returned is not empty and no longer than the pool, and its
\* highest score is the pool's highest score.
C29_DedupKeepsBest ==
    (FusionReturned /\ combined_detections # << >>) =>
        /\ \A i \in DOMAIN final_detections :
              \E j \in DOMAIN combined_detections :
                  final_detections[i] = combined_detections[j]
        /\ final_detections # << >>
        /\ Len(final_detections) <= Len(combined_detections)
        /\ MaxScore(final_detections) = MaxScore(combined_detections)

\* A pool of three of which the best replaced the first and the third was
\* dropped as its duplicate.
C29_Witness ==
    /\ FusionReturned
    /\ combined_detections = <<TruckLeft, TruckMiddle, TruckRight>>
    /\ final_detections = <<TruckMiddle>>

\* iou has returned.
IouReturned == ipc = "returned"

\* The pixels (unit cells of the grid) inside a box.
Cells(b) == {<<x, y>> : x \in b.xmin..(b.xmax - 1), y \in b.ymin..(b.ymax - 1)}

IntersectionArea(a, b) == Cardinality(Cells(a) \cap Cells(b))
UnionArea(a, b) == Cardinality(Cells(a) \cup Cells(b))

\* The value is intersection-area / (union-area + 1e-6), and 0 when the
\* boxes share no pixel.
IouIsQuotient ==
    IF IntersectionArea(first_box, second_box) = 0
    THEN iou_value.num = 0
    ELSE iou_value = Ratio(IntersectionArea(first_box, second_box) * IouEpsilonInverse,
                           UnionArea(first_box, second_box) * IouEpsilonInverse + 1)

\* 1 - value <= 1e-6
WithinEpsilonOfOne(value) ==
    /\ value.num <= value.den
    /\ (value.den - value.num) * IouEpsilonInverse <= value.den

\* The value is the same for the arguments exchanged, and lies in [0, 1].
IouSymmetricAndBounded ==
    /\ iou_value = iou(second_box, first_box)
    /\ iou_value.den > 0
    /\ 0 <= iou_value.num /\ iou_value.num <= iou_value.den

\* C25 as stated: the value is intersection / (union + 1e-6), 0 without a
\* common pixel, within 1e-6 of 1.0 for two identical boxes, symmetric and
\* in [0, 1].
C25_IouAsStated ==
    IouReturned =>
        /\ IouIsQuotient
        /\ first_box = second_box => WithinEpsilonOfOne(iou_value)
        /\ IouSymmetricAndBounded

\* C25, amended: the value is intersection / (union + 1e-6), 0 without a
\* common pixel, symmetric and in [0, 1]; for two identical boxes it is
\* within 1e-6 of 1.0 when the box has a positive area, and 0 when it has none.
C25_IouOfPositiveArea ==
    IouReturned =>
        /\ IouIsQuotient
        /\ first_box = second_box =>
              IF Cells(first_box) # {}
              THEN WithinEpsilonOfOne(iou_value)
              ELSE iou_value.num = 0
        /\ IouSymmetricAndBounded

\* Two identical boxes of one pixel: the value is 1000000 / 1000001.
C25_Witness ==
    /\ IouReturned
    /\ first_box = Box(1, 1, 2, 2) /\ second_box = first_box
    /\ iou_value = Ratio(IouEpsilonInverse, IouEpsilonInverse + 1)

\* C26: one call of generate_report invokes the model at most once: once the
\* model has answered or failed, the answer goes through the extraction, the
\* repair or the except clause without another invocation, and the call
\* returns after exactly one invocation (none for an empty detection list).
C26_ModelInvokedAtMostOnce ==
    /\ model_calls <= 1
    /\ gpc \in {"extract", "repair", "except"} => model_calls = 1
    /\ GenReturned => model_calls = IF gen_detections = << >> THEN 0 ELSE 1

\* The model was invoked once and failed, or answered with text that no stage
\* of the extraction could parse; the call returned a report all the same.
C26_Witness ==
    /\ GenReturned
    /\ model_calls = 1
    /\ \/ response.raises /\ report.summary = "llm_error"
       \/ stage = 5 /\ report.summary = "could_not_parse"

\* Once scan_with_retry has a row stored, no run of main starts and no
\* insert is made.
NoAttemptAfterRow ==
    (mode = "retry" /\ scans # << >>) => (run' = run /\ scans' = scans)

\* C28: one call of scan_with_retry creates at most one scan row, whatever
\* its collaborators do across the attempts: after the attempt whose insert
\* returned a row, no further attempt and no further insert is made.
C28_RetryStoresAtMostOneRow ==
    /\ [](mode = "retry" => Len(scans) <= 1)
    /\ [][NoAttemptAfterRow]_vars

\* scan_with_retry returned True at its second attempt, after a first attempt
\* that failed: the table holds the one row of the second run.
C28_Witness ==
    /\ mode = "retry" /\ wpc = "done" /\ ret = "True"
    /\ Len(log) = 3
    /\ log[1].result = "False" /\ log[2].ev = "sleep" /\ log[3].result = "True"
    /\ Len(scans) = 1 /\ scans[1].by = 2

\* json.loads of the audit text: the object the text serializes.
json_loads(text) == text.json_of

\* dict.get(key), "absent" for a key the dict does not have.
ValueUnder(dict, key) ==
    IF key \notin dict.keys THEN "absent"
    ELSE IF key = "summary" THEN dict.summary ELSE dict.issues

\* C30: in every stored scan the text llm_report serializes a report with the
\* summary and the issues of the row's llm_report_structured, and the
\* structured report has both keys.
C30_TextAndStructuredAgree ==
    \A i \in DOMAIN scans :
        /\ ReportKeys \subseteq scans[i].llm_report_structured.keys
        /\ \A key \in ReportKeys :
              ValueUnder(json_loads(scans[i].llm_report), key)
                  = ValueUnder(scans[i].llm_report_structured, key)

\* A stored scan whose report came from the model with an issue and a further
\* key: text and structured report both carry them.
C30_Witness ==
    /\ scans # << >>
    /\ "confidence" \in scans[1].llm_report_structured.keys
    /\ scans[1].llm_report_structured.issues = IssuesList(<<AnIssue>>)
    /\ json_loads(scans[1].llm_report) = scans[1].llm_report_structured

\* The rectangles drawn for the detection at position i.
RectanglesOf(i) == {k \in DOMAIN rectangles : rectangles[k].i = i}

\* The box of a detection cut to the image has no width or no height.
NothingToDraw(box) ==
    \/ Max(0, box.xmin) >= Min(ImageWidth, box.xmax)
    \/ Max(0, box.ymin) >= Min(ImageHeight, box.ymax)

====
